---- MODULE Spec2Model ----
(***************************************************************************)
(* Blood-analysis extraction backend: the NLP marker extractor             *)
(* (app/services/blood_nlp_extractor.py) and the API layer that merges     *)
(* table rows into its output (app/api/endpoints/blood.py).                *)
(*                                                                         *)
(* Numbers.  Every float of the program (values, reference bounds,         *)
(* confidences) is written in tenths: n stands for n/10, so 145.0 is 1450, *)
(* 5.8 is 58, confidence 1.0 is 10 and 0.7 is 7.  The status ladder's      *)
(* products min*0.7 and max*1.5 are compared exactly (10*v < 7*min,        *)
(* 10*v > 15*max).                                                         *)
(*                                                                         *)
(* Text.  A report text is a sequence of whitespace-separated tokens; the  *)
(* token NL is a line break.  Each regular expression of the program is    *)
(* modelled by what it matches on such a sequence.  Strings are ASCII: a   *)
(* Cyrillic string is written transliterated behind the prefix "ru:" (a    *)
(* Latin letter inside one is marked ~), the micro sign is written u.      *)
(***************************************************************************)
EXTENDS Integers, Sequences, FiniteSets, TLC

(* Bounds of the model.                                                    *)
MaxLen == 3
MaxRangeLen == 2
NCalls == 2
MaxRows == 2
MaxValue == 12
MaxCells == 3
MaxClock == 4
MaxMessages == 2

(* Optional[float] = None; every parsed number is >= 0.                    *)
None == -1
(* Optional[str] = None.                                                   *)
NoneStr == "None"
(* Optional[MarkerResult] = None: an empty marker slot.                    *)
NoMarker == [absent |-> TRUE]

(* Confidence 1.0 and 0.7, in tenths.                                      *)
ConfHigh == 10
ConfFallback == 7

(* The marker fields of BloodAnalysisExtraction, in declaration order (the *)
(* keys of MARKER_ALIASES, in the same order).                             *)
MarkerFields ==
    << "hemoglobin", "rbc", "wbc", "platelets", "hematocrit", "mcv",
       "mch", "mchc", "rdw", "mpv", "esr", "neutrophils",
       "lymphocytes", "monocytes", "eosinophils", "basophils", "glucose", "hba1c",
       "insulin", "cholesterol", "hdl", "ldl", "vldl", "triglycerides",
       "alt", "ast", "ggt", "alp", "bilirubin_total", "bilirubin_direct",
       "albumin", "total_protein", "creatinine", "urea", "uric_acid", "gfr",
       "cystatin_c", "sodium", "potassium", "chloride", "calcium", "magnesium",
       "phosphorus", "iron", "ferritin", "transferrin", "tsh", "t3",
       "t4", "t3_free", "t4_free", "vitamin_d", "vitamin_b12", "folate",
       "crp", "procalcitonin", "il6", "pt", "inr", "aptt",
       "fibrinogen", "d_dimer", "cortisol", "testosterone", "estradiol", "progesterone",
       "prolactin", "psa", "cea", "afp", "ca125", "ca199" >>

Markers == {MarkerFields[i] : i \in 1..Len(MarkerFields)}

(* The metadata fields of BloodAnalysisExtraction, after the marker fields.*)
MetadataFields == <<"lab_name", "analysis_date", "patient_name">>

(* Alias dictionary: marker key -> surface forms (lower case).             *)
MARKER_ALIASES ==
    [hemoglobin |-> {"hemoglobin", "hgb", "hb", "ru:gemoglobin"},
     rbc |-> {"rbc", "erythrocytes", "red blood cells", "ru:ehritrotsity",
          "ru:ehritrotsitter", "ru:ehr."},
     wbc |-> {"wbc", "leukocytes", "white blood cells", "ru:lejkotsity",
          "ru:lejkotsitter", "ru:lejk."},
     platelets |-> {"platelets", "plt", "thrombocytes", "ru:trombotsity", "ru:trombotsitter"},
     hematocrit |-> {"hematocrit", "hct", "ht", "ru:gematokrit"},
     mcv |-> {"mcv", "mean cell volume", "ru:srednij obem ehritrotsita", "ru:sr. obem ehritr."},
     mch |-> {"mch", "mean cell hemoglobin", "ru:sr. soderzh. gemoglobina", "ru:sr. sod. ~h~b"},
     mchc |-> {"mchc", "ru:sr. konts. gemoglobina"},
     rdw |-> {"rdw", "rdw-cv", "rdw-sd", "ru:shirina raspredeleniya"},
     mpv |-> {"mpv", "mean platelet volume", "ru:srednij obem trombotsita"},
     esr |-> {"esr", "sed rate", "ru:soeh", "ru:ehtzh", "ru:skorost osedaniya"},
     neutrophils |-> {"neutrophils", "neut", "neu", "ru:nejtrofily", "ru:nejtrofil"},
     lymphocytes |-> {"lymphocytes", "lymph", "lym", "ru:limfotsity", "ru:limfotsit"},
     monocytes |-> {"monocytes", "mono", "ru:monotsity", "ru:monotsit"},
     eosinophils |-> {"eosinophils", "eos", "ru:ehozinofily", "ru:ehozinofil"},
     basophils |-> {"basophils", "baso", "ru:bazofily", "ru:bazofil"},
     glucose |-> {"glucose", "glu", "ru:glyukoza", "ru:glyuk.", "ru:sakhar krovi", "ru:qan qanty"},
     hba1c |-> {"hba1c", "a1c", "ru:glikirovannyj gemoglobin", "ru:glikogemoglobin",
          "ru:glikirovannyj ~h~b", "ru:glikirovannyj", "ru:~h~b~a1~c (glikirovannyj"},
     insulin |-> {"insulin", "ru:insulin"},
     cholesterol |-> {"cholesterol", "chol", "ru:kholesterin", "ru:obshchij kholesterin",
          "ru:kholesterol"},
     hdl |-> {"hdl", "hdl-c", "hdl cholesterol", "ru:lpvp", "ru:lpvp-kholesterin",
          "ru:khs-lpvp", "ru:kholesterin-lpvp"},
     ldl |-> {"ldl", "ldl-c", "ldl cholesterol", "ru:lpnp", "ru:lpnp-kholesterin",
          "ru:khs-lpnp", "ru:kholesterin-lpnp", "ru:khs lpnp"},
     vldl |-> {"vldl", "ru:lponp", "ru:kholesterin ne-lpvp", "ru:ne-lpvp"},
     triglycerides |-> {"triglycerides", "tg", "ru:triglitseridy", "ru:trig."},
     alt |-> {"alt", "sgpt", "alanine aminotransferase", "ru:alt",
          "ru:alaninaminotransferaza"},
     ast |-> {"ast", "sgot", "aspartate aminotransferase", "ru:ast",
          "ru:aspartataminotransferaza"},
     ggt |-> {"ggt", "gamma-gt", "ru:ggt", "ru:gamma-glutamiltransferaza"},
     alp |-> {"alp", "alkaline phosphatase", "ru:shchelochnaya fosfataza", "ru:shchf"},
     bilirubin_total |-> {"total bilirubin", "tbil", "ru:bilirubin obshchij", "ru:obshchij bilirubin"},
     bilirubin_direct |-> {"direct bilirubin", "dbil", "ru:bilirubin pryamoj", "ru:pryamoj bilirubin"},
     albumin |-> {"albumin", "alb", "ru:albumin"},
     total_protein |-> {"total protein", "tp", "ru:obshchij belok", "ru:belok obshchij"},
     creatinine |-> {"creatinine", "crea", "cr", "ru:kreatinin"},
     urea |-> {"urea", "bun", "ru:mochevina"},
     uric_acid |-> {"uric acid", "ua", "ru:mochevaya kislota"},
     gfr |-> {"gfr", "egfr", "ru:skf", "ru:skorost klubochkovoj filtratsii"},
     cystatin_c |-> {"cystatin c", "cystatin", "ru:tsistatin s", "ru:tsistatin"},
     sodium |-> {"sodium", "na", "ru:natrij"},
     potassium |-> {"potassium", "k", "ru:kalij"},
     chloride |-> {"chloride", "cl", "ru:khlor", "ru:khloridy", "ru:khlor ~n~a"},
     calcium |-> {"calcium", "ca", "ru:kaltsij"},
     magnesium |-> {"magnesium", "mg", "ru:magnij"},
     phosphorus |-> {"phosphorus", "phos", "p", "ru:fosfor"},
     iron |-> {"iron", "fe", "ru:zhelezo", "ru:syvorotochnoe zhelezo"},
     ferritin |-> {"ferritin", "ru:ferritin"},
     transferrin |-> {"transferrin", "ru:transferrin"},
     tsh |-> {"tsh", "thyroid stimulating hormone", "ru:ttg", "ru:tireotropnyj gormon"},
     t3 |-> {"t3", "triiodothyronine", "ru:t3", "ru:trijodtironin"},
     t4 |-> {"t4", "thyroxine", "ru:t4", "ru:tiroksin"},
     t3_free |-> {"free t3", "ft3", "ru:sv. t3", "ru:svobodnyj t3"},
     t4_free |-> {"free t4", "ft4", "ru:sv. t4", "ru:svobodnyj t4"},
     vitamin_d |-> {"vitamin d", "vit d", "25-oh vitamin d", "ru:vitamin ~d", "ru:vitamin d",
          "ru:25-on vitamin d"},
     vitamin_b12 |-> {"vitamin b12", "b12", "cobalamin", "ru:vitamin v12", "ru:v12",
          "ru:kobalamin"},
     folate |-> {"folate", "folic acid", "ru:folievaya kislota", "ru:folat"},
     crp |-> {"crp", "c-reactive protein", "ru:srb", "ru:s-reaktivnyj belok",
          "ru:s-reaktivnyj protein"},
     procalcitonin |-> {"procalcitonin", "pct", "ru:prokaltsitonin"},
     il6 |-> {"il-6", "il6", "interleukin-6", "ru:interlejkin-6", "ru:il-6"},
     pt |-> {"pt", "prothrombin time", "ru:protrombinovoe vremya", "ru:ptv"},
     inr |-> {"inr", "ru:mno", "ru:mezhdunarodnoe normalizovannoe otnoshenie"},
     aptt |-> {"aptt", "ptt", "ru:achtv", "ru:aktivirovannoe chastichnoe tromboplastinovoe vremya"},
     fibrinogen |-> {"fibrinogen", "ru:fibrinogen"},
     d_dimer |-> {"d-dimer", "d dimer", "ru:d-dimer", "ru:~d-dimer"},
     cortisol |-> {"cortisol", "ru:kortizol"},
     testosterone |-> {"testosterone", "ru:testosteron"},
     estradiol |-> {"estradiol", "e2", "ru:ehstradiol"},
     progesterone |-> {"progesterone", "ru:progesteron"},
     prolactin |-> {"prolactin", "ru:prolaktin"},
     psa |-> {"psa", "prostate specific antigen", "ru:psa", "ru:prostaticheskij spetsificheskij antigen"},
     cea |-> {"cea", "carcinoembryonic antigen", "ru:reha", "ru:rakovo-ehmbrionalnyj antigen"},
     afp |-> {"afp", "alpha-fetoprotein", "ru:afp", "ru:alfa-fetoprotein"},
     ca125 |-> {"ca-125", "ca125", "ca 125", "ru:sa-125", "ru:sa125"},
     ca199 |-> {"ca-19-9", "ca19-9", "ca199", "ca 19-9", "ru:sa-19-9", "ru:sa19-9"}]

(* Default reference ranges: marker key -> (min, max, unit), in tenths.    *)
REFERENCE_RANGES ==
    [hemoglobin |-> <<1200, 1600, "g/L">>,
     rbc |-> <<38, 55, "10^12/L">>,
     wbc |-> <<40, 100, "10^9/L">>,
     platelets |-> <<1500, 4000, "10^9/L">>,
     hematocrit |-> <<360, 480, "%">>,
     mcv |-> <<800, 1000, "fL">>,
     mch |-> <<270, 330, "pg">>,
     mchc |-> <<3200, 3600, "g/L">>,
     esr |-> <<0, 200, "mm/h">>,
     glucose |-> <<39, 61, "mmol/L">>,
     cholesterol |-> <<0, 52, "mmol/L">>,
     hdl |-> <<10, 20, "mmol/L">>,
     ldl |-> <<0, 30, "mmol/L">>,
     triglycerides |-> <<0, 17, "mmol/L">>,
     alt |-> <<0, 400, "U/L">>,
     ast |-> <<0, 400, "U/L">>,
     creatinine |-> <<530, 1150, "umol/L">>,
     urea |-> <<25, 83, "mmol/L">>,
     tsh |-> <<4, 40, "mIU/L">>,
     crp |-> <<0, 50, "mg/L">>]

(***************************************************************************)
(* Tokens.  Every token has: k (kind), txt (its text), pre (the longest    *)
(* prefix of txt made of unit-class characters [a-z<cyrillic>u%^0-9*/.-],  *)
(* "" when txt starts outside the class) and dig (txt holds a digit).      *)
(***************************************************************************)

(* A numeric literal \d+(?:[.,]\d+)?: integer part, separator, fraction    *)
(* digit.  pre stops at a decimal comma, which is outside the unit class.  *)
Lit(txt, ip, sep, fp, pre) ==
    [txt |-> txt, ip |-> ip, sep |-> sep, fp |-> fp, pre |-> pre]

(* An alias (case folded) that ends a word: where in the word it starts    *)
(* and the text it covers.                                                 *)
End(alias, at, txt) == [alias |-> alias, at |-> at, txt |-> txt]

(* A word together with the dictionary aliases that end it.                *)
Alias(txt, ends) ==
    [k |-> "alias", txt |-> txt, pre |-> txt, dig |-> FALSE, ends |-> ends]

(* The word "ALT/AST": the head of the combined notation.  The generic     *)
(* pattern sees the alias that ends it.                                    *)
PairLabel(txt, ends) ==
    [k |-> "pairlabel", txt |-> txt, pre |-> txt, dig |-> FALSE, ends |-> ends]

(* "a/b": two numbers joined by a slash; tail is the text after a.         *)
Pair(txt, a, b, tail) ==
    [k |-> "pair", txt |-> txt, pre |-> txt, dig |-> TRUE,
     a |-> a, b |-> b, tail |-> tail]

Num(l) == [k |-> "num", txt |-> l.txt, pre |-> l.pre, dig |-> TRUE, v |-> l]

(* A unit word; short: it has the shape                                    *)
(* (mmol|mkmol|g|mg|ed|u|g|mg|mmol)?(/l)? the bare-range pattern allows    *)
(* after a range.                                                          *)
Unit(txt, short) ==
    [k |-> "unit", txt |-> txt, pre |-> txt, dig |-> FALSE, short |-> short]

(* "lo-hi" written tight: all of it is in the unit class.                  *)
Range(txt, lo, hi, tail) ==
    [k |-> "range", txt |-> txt, pre |-> txt, dig |-> TRUE,
     lo |-> lo, hi |-> hi, tail |-> tail]

(* "(lo-hi)".                                                              *)
PRange(txt, lo, hi) ==
    [k |-> "prange", txt |-> txt, pre |-> "", dig |-> TRUE, lo |-> lo, hi |-> hi]

(* "norma: lo-hi": a range label, then the range; rem is the text after    *)
(* the label word.                                                         *)
Labeled(txt, label, rem, lo, hi) ==
    [k |-> "labeled", txt |-> txt, pre |-> label, dig |-> TRUE,
     rem |-> rem, lo |-> lo, hi |-> hi]

(* "(norma: lo-hi)".                                                       *)
PLabeled(txt, lo, hi) ==
    [k |-> "plabeled", txt |-> txt, pre |-> "", dig |-> TRUE, lo |-> lo, hi |-> hi]

(* "<v", ">v", "<=v", ">=v" (the last two stand for the one-character      *)
(* signs).                                                                 *)
Bound(txt, op, v) ==
    [k |-> "bound", txt |-> txt, pre |-> "", dig |-> TRUE, op |-> op, v |-> v]

(* A word holding laboratory name pattern pat.                             *)
LabName(txt, pat) ==
    [k |-> "lab", txt |-> txt, pre |-> txt, dig |-> FALSE, pat |-> pat]

(* "Data: dd.mm.yyyy".                                                     *)
DateTok(txt, label, date) ==
    [k |-> "date", txt |-> txt, pre |-> label, dig |-> TRUE, date |-> date]

(* A line break.                                                           *)
NL == [k |-> "nl", txt |-> "\n", pre |-> "", dig |-> FALSE]

(* What is left of a token whose prefix the unit group consumed.           *)
Remainder(t) ==
    IF t.k = "labeled"
    THEN [k |-> "range", txt |-> t.rem, pre |-> "", dig |-> TRUE,
          lo |-> t.lo, hi |-> t.hi, tail |-> ""]
    ELSE [k |-> "junk", txt |-> "", pre |-> "", dig |-> t.dig]

(* The literals and tokens the model's texts are made of.                  *)
L145 == Lit("145", 145, "", 0, "145")
L100 == Lit("100", 100, "", 0, "100")
L65 == Lit("65", 65, "", 0, "65")
L23 == Lit("23", 23, "", 0, "23")
L18 == Lit("18", 18, "", 0, "18")
L50 == Lit("50", 50, "", 0, "50")
L10 == Lit("10", 10, "", 0, "10")
L5c8 == Lit("5,8", 5, ",", 8, "5")
L3 == Lit("3", 3, "", 0, "3")
L5 == Lit("5", 5, "", 0, "5")

THgb == Alias("ru:Gemoglobin", {End("ru:gemoglobin", 0, "ru:Gemoglobin")})
TAlt == Alias("ru:ALT", {End("ru:alt", 0, "ru:ALT")})
TFer == Alias("Ferritin", {End("ferritin", 0, "Ferritin")})
TAlp == Alias("ALP", {End("alp", 0, "ALP"), End("p", 2, "P")})
TAltAst == PairLabel("ru:ALT/AST", {End("ru:ast", 4, "ru:AST")})
TPair == Pair("23/18", L23, L18, "/18")
TPair2 == Pair("50/65", L50, L65, "/65")
TUnit == Unit("ru:Ed/l", TRUE)
TGl == Unit("ru:g/l", TRUE)
TWord == Unit("ru:itogo", FALSE)
TLab == LabName("Invivo", "invivo")
TDate == DateTok("ru:Data: 01.02.2024", "ru:Data", "01.02.2024")
TRange == Range("3-5", L3, L5, "-5")
TRangeRev == Range("5-3", L5, L3, "-3")
TPRange == PRange("(3-5)", L3, L5)
TLabeled == Labeled("ru:norma: 3-5", "ru:norma", ": 3-5", L3, L5)
TPLabeled == PLabeled("(ru:norma: 3-5)", L3, L5)
TPLabeledRev == PLabeled("(ru:norma: 5-3)", L5, L3)
TLess == Bound("<5", "<", L5)
TMore == Bound(">5", ">", L5)

(* The dictionary aliases that end a longer dictionary alias: <<word,      *)
(* alias, offset of the alias in the word>>.                               *)
AliasSuffixes ==
    {<<"25-oh vitamin d", "vitamin d", 6>>,
     <<"ru:25-on vitamin d", "ru:vitamin d", 6>>, <<"afp", "p", 2>>,
     <<"alp", "p", 2>>, <<"aptt", "ptt", 1>>, <<"crp", "p", 2>>,
     <<"egfr", "gfr", 1>>, <<"free t3", "t3", 5>>, <<"free t4", "t4", 5>>,
     <<"ft3", "t3", 1>>, <<"ft4", "t4", 1>>, <<"hba1c", "a1c", 2>>,
     <<"ru:~h~b~a1~c (glikirovannyj", "ru:glikirovannyj", 7>>,
     <<"hdl cholesterol", "cholesterol", 4>>,
     <<"ldl cholesterol", "cholesterol", 4>>,
     <<"mean cell hemoglobin", "hemoglobin", 10>>, <<"sgpt", "pt", 2>>,
     <<"tp", "p", 1>>, <<"vitamin b12", "b12", 8>>, <<"vldl", "ldl", 1>>,
     <<"ru:vitamin v12", "ru:v12", 8>>,
     <<"ru:glikirovannyj ~h~b", "hb", 14>>,
     <<"ru:glikirovannyj gemoglobin", "ru:gemoglobin", 14>>,
     <<"ru:glikogemoglobin", "ru:gemoglobin", 5>>,
     <<"ru:lpvp-kholesterin", "ru:kholesterin", 5>>,
     <<"ru:lpnp-kholesterin", "ru:kholesterin", 5>>,
     <<"ru:ne-lpvp", "ru:lpvp", 3>>,
     <<"ru:obshchij kholesterin", "ru:kholesterin", 6>>,
     <<"ru:sv. t3", "ru:t3", 4>>, <<"ru:sv. t4", "ru:t4", 4>>,
     <<"ru:svobodnyj t3", "ru:t3", 10>>, <<"ru:svobodnyj t4", "ru:t4", 10>>,
     <<"ru:sr. sod. ~h~b", "hb", 9>>,
     <<"ru:syvorotochnoe zhelezo", "ru:zhelezo", 13>>,
     <<"ru:khlor ~n~a", "na", 5>>,
     <<"ru:kholesterin ne-lpvp", "ru:lpvp", 14>>,
     <<"ru:kholesterin ne-lpvp", "ru:ne-lpvp", 11>>,
     <<"ru:kholesterin-lpvp", "ru:lpvp", 11>>,
     <<"ru:kholesterin-lpnp", "ru:lpnp", 11>>,
     <<"ru:khs lpnp", "ru:lpnp", 3>>, <<"ru:khs-lpvp", "ru:lpvp", 3>>,
     <<"ru:khs-lpnp", "ru:lpnp", 3>>}

(* A dictionary alias written as a word of a report: the word ends with    *)
(* itself and with every shorter alias that is a suffix of it.  (Inside    *)
(* the seven written forms of CA 125 and CA 19-9 the calcium alias "ca" is *)
(* followed by digits of the word itself; that match, which concerns the   *)
(* calcium slot only, is not part of the word's description.)              *)
AliasWord(a) ==
    Alias(a, {End(a, 0, a)} \cup
             {End(s[2], s[3], s[2]) : s \in {x \in AliasSuffixes : x[1] = a}})

(* The line "A: 10".                                                       *)
AliasLine(a) == <<AliasWord(a), Num(L10)>>

(* str.lower() on the strings the model's texts hold.                      *)
LowerCase ==
    ("ru:Gemoglobin" :> "ru:gemoglobin") @@ ("ru:ALT" :> "ru:alt") @@
    ("Ferritin" :> "ferritin") @@ ("ALP" :> "alp") @@
    ("ru:ALT/AST" :> "ru:alt/ast") @@ ("ru:Ed/l" :> "ru:ed/l") @@
    ("Invivo" :> "invivo") @@ ("ru:Data" :> "ru:data")

Lower(s) == IF s \in DOMAIN LowerCase THEN LowerCase[s] ELSE s

Min(S) == CHOOSE x \in S : \A y \in S : x <= y

(* _parse_float: None for an empty string, else the float of the text with *)
(* a decimal comma read as a point (in tenths).                            *)
ParseFloat(value_str) ==
    IF value_str.txt = "" THEN None ELSE value_str.ip * 10 + value_str.fp

normalizations ==
    ("ru:g/l" :> "g/L") @@ ("ru:mmol/l" :> "mmol/L") @@
    ("ru:mkmol/l" :> "umol/L") @@ ("ru:ed/l" :> "U/L") @@
    ("ru:mm/ch" :> "mm/h") @@ ("ru:mkg/l" :> "ug/L") @@
    ("ru:ng/ml" :> "ng/mL") @@ ("ru:pg/ml" :> "pg/mL") @@ ("%" :> "%")

(* _normalize_unit                                                         *)
NormalizeUnit(unit) ==
    IF unit = NoneStr \/ unit = "" THEN NoneStr
    ELSE LET u == Lower(unit)
         IN IF u \in DOMAIN normalizations THEN normalizations[u] ELSE u

(* MarkerResult(...)                                                       *)
MarkerResult(value, unit, confidence, raw_text) ==
    [value |-> value, unit |-> unit, reference_min |-> None,
     reference_max |-> None, status |-> NoneStr, confidence |-> confidence,
     raw_text |-> raw_text]

(* The status ladder of _add_reference_and_status (value, bounds present). *)
LadderStatus(value, reference_min, reference_max) ==
    IF 10 * value < 7 * reference_min THEN "critical_low"
    ELSE IF value < reference_min THEN "low"
    ELSE IF 10 * value > 15 * reference_max THEN "critical_high"
    ELSE IF value > reference_max THEN "high"
    ELSE "normal"

(* _add_reference_and_status                                               *)
AddReferenceAndStatus(marker_result, marker_key) ==
    LET d == IF marker_key \in DOMAIN REFERENCE_RANGES
             THEN REFERENCE_RANGES[marker_key] ELSE <<None, None, NoneStr>>
        r == IF marker_key \in DOMAIN REFERENCE_RANGES
             THEN [marker_result EXCEPT
                     !.reference_min = IF @ = None THEN d[1] ELSE @,
                     !.reference_max = IF @ = None THEN d[2] ELSE @,
                     !.unit = IF @ = NoneStr THEN d[3] ELSE @]
             ELSE marker_result
    IN IF r.value # None /\ r.reference_min # None /\ r.reference_max # None
       THEN [r EXCEPT !.status =
                LadderStatus(r.value, r.reference_min, r.reference_max)]
       ELSE IF r.value # None THEN [r EXCEPT !.status = "unknown"]
       ELSE r

(* A variant of calculate_status whose comparisons include the thresholds. *)
calculate_status_inclusive(value, ref_min, ref_max) ==
    IF ref_min = None \/ ref_max = None THEN "unknown"
    ELSE IF 10 * value <= 7 * ref_min THEN "critical_low"
    ELSE IF value <= ref_min THEN "low"
    ELSE IF 10 * value >= 15 * ref_max THEN "critical_high"
    ELSE IF value >= ref_max THEN "high"
    ELSE "normal"

(* calculate_status of the API layer                                       *)
calculate_status(value, ref_min, ref_max) ==
    IF ref_min = None \/ ref_max = None THEN "unknown"
    ELSE IF 10 * value < 7 * ref_min THEN "critical_low"
    ELSE IF value < ref_min THEN "low"
    ELSE IF 10 * value > 15 * ref_max THEN "critical_high"
    ELSE IF value > ref_max THEN "high"
    ELSE "normal"

(***************************************************************************)
(* The compiled patterns (_compile_patterns), on token sequences.          *)
(***************************************************************************)

(* A variant of CompilePatterns whose alternation for a marker holds the   *)
(* marker's key only.                                                      *)
CompilePatternsKeyOnly ==
    [alias_patterns |-> [m \in Markers |-> {m}],
     lab_patterns |-> <<"invivo", "ru:olimp", "synlab", "kdl",
                        "ru:meditsinskaya laboratoriya">>]

(* self.alias_patterns and self.lab_patterns as built by _compile_patterns:*)
(* one alternation of the marker's aliases per marker; the laboratory name *)
(* patterns in list order.                                                 *)
CompilePatterns ==
    [alias_patterns |-> [m \in Markers |-> MARKER_ALIASES[m]],
     lab_patterns |-> <<"invivo", "ru:olimp", "synlab", "kdl",
                        "ru:meditsinskaya laboratoriya">>]

(* text.splitlines(), stripped, empty lines dropped.                       *)
RECURSIVE SplitFrom(_, _, _)
SplitFrom(s, i, cur) ==
    IF i > Len(s) THEN (IF cur = <<>> THEN <<>> ELSE <<cur>>)
    ELSE IF s[i].k = "nl"
         THEN (IF cur = <<>> THEN <<>> ELSE <<cur>>) \o SplitFrom(s, i + 1, <<>>)
         ELSE SplitFrom(s, i + 1, Append(cur, s[i]))

SplitLines(text) == SplitFrom(text, 1, <<>>)

(* The first token at or after i that is not white space (0: none).        *)
NextTok(s, i) ==
    LET J == {j \in i..Len(s) : s[j].k # "nl"}
    IN IF J = {} THEN 0 ELSE Min(J)

NoMatch == [found |-> FALSE]

(* alias_patterns[marker].search(s):                                       *)
(*   (?P<alias>a1|a2|...)\s*[:\-]?\s*(?P<value>\d+(?:[.,]\d+)?)            *)
(*   \s*(?P<unit>[unit class]+)?                                           *)
(* the leftmost word ending with an alias of the marker and followed, over *)
(* white space only, by a token that starts with a number.  The unit group *)
(* takes what follows the number inside its token or, for a plain number,  *)
(* the unit-class prefix of the next token.  last is the last token the    *)
(* match touches, partial tells that only its prefix was consumed, head    *)
(* is the text from the start of the alias to the end of its word.         *)
Hits(pattern, tok) == {e \in tok.ends : e.alias \in pattern}

AliasText(pattern, tok) ==
    (CHOOSE e \in Hits(pattern, tok) :
        \A f \in Hits(pattern, tok) : e.at <= f.at).txt

PatternSearch(pattern, s) ==
    LET starts == {i \in 1..Len(s) :
                     /\ s[i].k \in {"alias", "pairlabel"}
                     /\ Hits(pattern, s[i]) # {}
                     /\ NextTok(s, i + 1) # 0
                     /\ s[NextTok(s, i + 1)].k \in {"num", "pair", "range"}}
    IN IF starts = {} THEN NoMatch
       ELSE LET i == Min(starts)
                j == NextTok(s, i + 1)
                u == NextTok(s, j + 1)
            IN IF s[j].k = "num"
               THEN IF u # 0 /\ s[u].pre # ""
                    THEN [found |-> TRUE, start |-> i,
                          head |-> AliasText(pattern, s[i]), value |-> s[j].v,
                          unit |-> s[u].pre, last |-> u,
                          partial |-> s[u].pre # s[u].txt]
                    ELSE [found |-> TRUE, start |-> i,
                          head |-> AliasText(pattern, s[i]), value |-> s[j].v,
                          unit |-> NoneStr, last |-> j, partial |-> FALSE]
               ELSE [found |-> TRUE, start |-> i, head |-> AliasText(pattern, s[i]),
                     value |-> IF s[j].k = "pair" THEN s[j].a ELSE s[j].lo,
                     unit |-> s[j].tail, last |-> j, partial |-> FALSE]

(* line[match.end():]                                                      *)
AfterMatch(s, mt) ==
    (IF mt.partial THEN <<Remainder(s[mt.last])>> ELSE <<>>)
        \o SubSeq(s, mt.last + 1, Len(s))

(* match.group(0), as the texts of the tokens it spans (white space at its *)
(* end is not kept).                                                       *)
MatchText(s, mt) ==
    [n \in 1..(mt.last - mt.start + 1) |->
        IF n = 1 THEN mt.head
        ELSE IF mt.partial /\ n = mt.last - mt.start + 1
        THEN s[mt.last].pre ELSE s[mt.start + n - 1].txt]

LineText(line) == [n \in 1..Len(line) |-> line[n].txt]

(* alt_ast_pattern.finditer(text):                                         *)
(*   (?:alt)\s*/\s*(?:ast)[^\d]*(?P<alt>num)\s*/\s*(?P<ast>num)            *)
(* a head "ALT/AST" whose next digit starts a pair a/b; matches do not     *)
(* overlap.  Each match is <<head, pair>> (token positions).               *)
RECURSIVE AltAstFrom(_, _)
AltAstFrom(s, p) ==
    LET heads == {i \in p..Len(s) :
                    /\ s[i].k = "pairlabel"
                    /\ \E j \in (i + 1)..Len(s) :
                         /\ s[j].k = "pair"
                         /\ \A x \in (i + 1)..(j - 1) : ~s[x].dig}
    IN IF heads = {} THEN <<>>
       ELSE LET i == Min(heads)
                j == Min({x \in (i + 1)..Len(s) : s[x].dig})
            IN <<<<i, j>>>> \o AltAstFrom(s, j + 1)

AltAstMatches(text) == AltAstFrom(text, 1)

(* ref_range_pattern_labeled.search(rest): label[:\s]*min - max            *)
LabeledSearch(rest) ==
    LET I == {i \in 1..Len(rest) : rest[i].k \in {"labeled", "plabeled"}}
    IN IF I = {} THEN NoMatch
       ELSE [found |-> TRUE, min |-> rest[Min(I)].lo, max |-> rest[Min(I)].hi]

RangeKinds == {"range", "prange", "labeled", "plabeled"}

(* ref_range_pattern_simple.search(rest): (min - max) and an optional      *)
(* short unit, at the end of the line.                                     *)
SimpleSearch(rest) ==
    LET n == Len(rest)
    IN IF n >= 1 /\ rest[n].k \in RangeKinds
       THEN [found |-> TRUE, min |-> rest[n].lo, max |-> rest[n].hi]
       ELSE IF /\ n >= 2
               /\ rest[n].k = "unit"
               /\ rest[n].short
               /\ rest[n - 1].k \in RangeKinds
            THEN [found |-> TRUE, min |-> rest[n - 1].lo, max |-> rest[n - 1].hi]
            ELSE NoMatch

(* ref_range_pattern_single.search(rest): [<>]\s*num                       *)
SingleSearch(rest) ==
    LET I == {i \in 1..Len(rest) : rest[i].k = "bound"}
    IN IF I = {} THEN NoMatch
       ELSE [found |-> TRUE, op |-> rest[Min(I)].op, val |-> rest[Min(I)].v]

(* A variant of TextReference in which a lower bound ("> v") sets the      *)
(* minimum only.                                                           *)
TextReferenceLowerOnly(marker_result, line_after_value) ==
    LET lab == LabeledSearch(line_after_value)
        sim == SimpleSearch(line_after_value)
        sgl == SingleSearch(line_after_value)
    IN IF lab.found
       THEN [marker_result EXCEPT !.reference_min = ParseFloat(lab.min),
                                  !.reference_max = ParseFloat(lab.max)]
       ELSE IF sim.found
       THEN IF ParseFloat(sim.min) < ParseFloat(sim.max)
            THEN [marker_result EXCEPT !.reference_min = ParseFloat(sim.min),
                                       !.reference_max = ParseFloat(sim.max)]
            ELSE marker_result
       ELSE IF sgl.found
       THEN IF sgl.op \in {"<", "<="}
            THEN [marker_result EXCEPT !.reference_min = 0,
                                       !.reference_max = ParseFloat(sgl.val)]
            ELSE [marker_result EXCEPT !.reference_min = ParseFloat(sgl.val)]
       ELSE marker_result

(* The reference range read from the rest of the line (extract, "FIRST:    *)
(* Extract reference range from same line").                               *)
TextReference(marker_result, line_after_value) ==
    LET lab == LabeledSearch(line_after_value)
        sim == SimpleSearch(line_after_value)
        sgl == SingleSearch(line_after_value)
    IN IF lab.found
       THEN [marker_result EXCEPT !.reference_min = ParseFloat(lab.min),
                                  !.reference_max = ParseFloat(lab.max)]
       ELSE IF sim.found
       THEN LET ref_min == ParseFloat(sim.min)
                ref_max == ParseFloat(sim.max)
            IN IF ref_min # None /\ ref_max # None /\ ref_min < ref_max
               THEN [marker_result EXCEPT !.reference_min = ref_min,
                                          !.reference_max = ref_max]
               ELSE marker_result
       ELSE IF sgl.found
       THEN LET val == ParseFloat(sgl.val)
            IN IF val = None THEN marker_result
               ELSE IF sgl.op \in {"<", "<="}
               THEN [marker_result EXCEPT !.reference_min = 0,
                                          !.reference_max = val]
               ELSE [marker_result EXCEPT !.reference_min = val,
                                          !.reference_max = val * 10]
       ELSE marker_result

(* _extract_lab_name: the first pattern of the list found in the text.     *)
ExtractLabName(pats, text) ==
    LET hit == {n \in 1..Len(pats.lab_patterns) :
                  \E i \in 1..Len(text) :
                     text[i].k = "lab" /\ text[i].pat = pats.lab_patterns[n]}
    IN IF hit = {} THEN NoneStr ELSE pats.lab_patterns[Min(hit)]

(* _extract_date: the first "date: dd.mm.yyyy" of the text.                *)
ExtractDate(text) ==
    LET I == {i \in 1..Len(text) : text[i].k = "date"}
    IN IF I = {} THEN NoneStr ELSE text[Min(I)].date

(* BloodAnalysisExtraction(): every field None.                            *)
EmptyExtraction ==
    [markers |-> [m \in Markers |-> NoMarker], lab_name |-> NoneStr,
     analysis_date |-> NoneStr, patient_name |-> NoneStr]

(***************************************************************************)
(* The passes of BloodNLPExtractor.extract.                                *)
(***************************************************************************)

(* One match of the combined pattern: result.alt and result.ast are        *)
(* overwritten with the pair's numbers at confidence 1.0.                  *)
CombinedStore(markers, text, mt) ==
    LET alt_value == ParseFloat(text[mt[2]].a)
        ast_value == ParseFloat(text[mt[2]].b)
        raw == [n \in 1..(mt[2] - mt[1] + 1) |-> text[mt[1] + n - 1].txt]
    IN [m \in Markers |->
         IF m = "alt" /\ alt_value # None
         THEN AddReferenceAndStatus(
                  MarkerResult(alt_value, "U/L", ConfHigh, raw), "alt")
         ELSE IF m = "ast" /\ ast_value # None
         THEN AddReferenceAndStatus(
                  MarkerResult(ast_value, "U/L", ConfHigh, raw), "ast")
         ELSE markers[m]]

(* A variant of LineSkips that never skips.                                *)
LineSkipsNever(existing) == FALSE

(* "Skip if already found with high confidence".                           *)
LineSkips(existing) == existing # NoMarker /\ existing.confidence >= ConfHigh

(* The observation the line-scoped pass builds for a marker on a line      *)
(* (NoMarker: no match, or no value).                                      *)
LineObservation(pattern, marker, line) ==
    LET mt == PatternSearch(pattern, line)
    IN IF ~mt.found THEN NoMarker
       ELSE LET value == ParseFloat(mt.value)
            IN IF value = None THEN NoMarker
               ELSE AddReferenceAndStatus(
                        TextReference(
                            MarkerResult(value, NormalizeUnit(mt.unit),
                                         ConfHigh, LineText(line)),
                            AfterMatch(line, mt)),
                        marker)

(* The body of "for line in lines" for one line: every marker in turn.     *)
LineStore(pats, markers, line) ==
    [m \in Markers |->
       IF LineSkips(markers[m]) THEN markers[m]
       ELSE LET obs == LineObservation(pats.alias_patterns[m], m, line)
            IN IF obs = NoMarker THEN markers[m] ELSE obs]

(* A variant of FallbackSkips that never skips.                            *)
FallbackSkipsNever(existing) == FALSE

(* "existing and existing.confidence > 0: continue" of the fallback loop.  *)
FallbackSkips(existing) == existing # NoMarker /\ existing.confidence > 0

(* The observation the fallback pass builds for a marker from the whole    *)
(* text.                                                                   *)
FallbackObservation(pattern, marker, text) ==
    LET mt == PatternSearch(pattern, text)
    IN IF ~mt.found THEN NoMarker
       ELSE LET value == ParseFloat(mt.value)
            IN IF value = None THEN NoMarker
               ELSE AddReferenceAndStatus(
                        MarkerResult(value, NormalizeUnit(mt.unit),
                                     ConfFallback, MatchText(text, mt)),
                        marker)

(* The fallback loop: every marker in turn.                                *)
FallbackStore(pats, markers, text) ==
    [m \in Markers |->
       IF FallbackSkips(markers[m]) THEN markers[m]
       ELSE LET obs == FallbackObservation(pats.alias_patterns[m], m, text)
            IN IF obs = NoMarker THEN markers[m] ELSE obs]

(* extract(text) as one function: the passes in program order.             *)
RECURSIVE CombinedAll(_, _, _, _)
CombinedAll(markers, text, ms, n) ==
    IF n > Len(ms) THEN markers
    ELSE CombinedAll(CombinedStore(markers, text, ms[n]), text, ms, n + 1)

RECURSIVE LinesAll(_, _, _, _)
LinesAll(pats, markers, lines, n) ==
    IF n > Len(lines) THEN markers
    ELSE LinesAll(pats, LineStore(pats, markers, lines[n]), lines, n + 1)

Extract(pats, text) ==
    IF text = <<>> THEN EmptyExtraction
    ELSE [markers |->
            FallbackStore(pats,
                LinesAll(pats,
                    CombinedAll(EmptyExtraction.markers, text,
                                AltAstMatches(text), 1),
                    SplitLines(text), 1),
                text),
          lab_name |-> ExtractLabName(pats, text),
          analysis_date |-> ExtractDate(text),
          patient_name |-> NoneStr]

(***************************************************************************)
(* Serialisation and summary (to_dict, get_summary,                        *)
(* extract_blood_analysis).                                                *)
(***************************************************************************)

(* extraction.__dataclass_fields__, in declaration order.                  *)
DataclassFields == MarkerFields \o MetadataFields

FieldSet(fields) == {fields[i] : i \in 1..Len(fields)}

(* getattr(extraction, field_name) is None                                 *)
FieldIsNone(extraction, field_name) ==
    IF field_name \in Markers
    THEN extraction.markers[field_name] = NoMarker
    ELSE extraction[field_name] = NoneStr

(* to_dict: every dataclass field whose value is not None, an observation  *)
(* as the dictionary of its fields and any other value as it is.           *)
ToDict(extraction) ==
    [field_name \in {f \in FieldSet(DataclassFields) :
                        ~FieldIsNone(extraction, f)} |->
        IF field_name \in Markers
        THEN extraction.markers[field_name]
        ELSE extraction[field_name]]

(* A variant of Severity with a single severity.                           *)
SeverityFlat(status) ==
    IF status \in {"critical_low", "critical_high", "low", "high"}
    THEN "critical" ELSE ""

(* The severity get_summary gives an alert ("": no alert).                 *)
Severity(status) ==
    IF status \in {"critical_low", "critical_high"} THEN "critical"
    ELSE IF status \in {"low", "high"} THEN "warning"
    ELSE ""

(* The field names get_summary counts: all but the metadata names.         *)
SummaryFields ==
    SelectSeq(DataclassFields,
              LAMBDA f : f \notin {"lab_name", "analysis_date", "patient_name"})

(* value is not None and isinstance(value, MarkerResult) and               *)
(* value.value is not None                                                 *)
IsFound(extraction, field_name) ==
    /\ extraction.markers[field_name] # NoMarker
    /\ extraction.markers[field_name].value # None

(* The alerts list, appended to in field order.                            *)
RECURSIVE AlertsFrom(_, _)
AlertsFrom(extraction, i) ==
    IF i > Len(SummaryFields) THEN <<>>
    ELSE LET field_name == SummaryFields[i]
             value == extraction.markers[field_name]
         IN (IF IsFound(extraction, field_name) /\ Severity(value.status) # ""
             THEN <<[marker |-> field_name, value |-> value.value,
                     unit |-> value.unit, status |-> value.status,
                     severity |-> Severity(value.status)]>>
             ELSE <<>>) \o AlertsFrom(extraction, i + 1)

(* A variant of ExtractionRate that rounds up.                             *)
ExtractionRateUp(found, total) ==
    IF total > 0 THEN (found * 1000 + total) \div total ELSE 0

(* round(found / total * 100, 1), in tenths of a percent (no value of      *)
(* found below total = 72 lies half-way between two tenths).               *)
ExtractionRate(found, total) ==
    IF total > 0 THEN (found * 2000 + total) \div (2 * total) ELSE 0

(* get_summary                                                             *)
GetSummary(extraction) ==
    LET total == Len(SummaryFields)
        found == Cardinality({i \in 1..Len(SummaryFields) :
                                 IsFound(extraction, SummaryFields[i])})
        alerts == AlertsFrom(extraction, 1)
    IN [total_markers |-> total,
        found_markers |-> found,
        extraction_rate |-> ExtractionRate(found, total),
        alerts |-> alerts,
        critical_count |-> Len(SelectSeq(alerts,
                                LAMBDA a : a.severity = "critical")),
        warning_count |-> Len(SelectSeq(alerts,
                                LAMBDA a : a.severity = "warning"))]

(* The dictionary extract_blood_analysis returns for an extraction.        *)
AnalysisDict(extraction) ==
    [markers |-> ToDict(extraction),
     summary |-> GetSummary(extraction),
     lab_name |-> extraction.lab_name,
     analysis_date |-> extraction.analysis_date]

(* extract_blood_analysis(text), run without interruption.                 *)
ExtractBloodAnalysis(pats, text) == AnalysisDict(Extract(pats, text))

(***************************************************************************)
(* The table merge of the /extract-nlp endpoint.                           *)
(***************************************************************************)

(* A marker name of a table row: related holds the aliases that contain    *)
(* the lower-cased name or are contained in it, direct the targets of the  *)
(* direct_mappings keys contained in it, in dictionary order.              *)
Name(txt, related, direct) ==
    [txt |-> txt, related |-> related, direct |-> direct]

NAlt == Name("ru:ALT", {"ru:alt"}, <<"alt">>)
NFer == Name("ru:Ferritin", {"ru:ferritin"}, <<"ferritin">>)
NTotal == Name("ru:Itogo", {}, <<>>)

(* The pairs <<a, b>> of different aliases of the dictionary (case folded) *)
(* with "b in a or a in b".                                                *)
AliasRelations ==
    {<<"25-oh vitamin d", "vitamin d">>,
     <<"ru:25-on vitamin d", "ru:vitamin d">>, <<"a1c", "hba1c">>,
     <<"a1c", "ru:~h~b~a1~c (glikirovannyj">>, <<"afp", "p">>,
     <<"alanine aminotransferase", "fe">>, <<"alb", "albumin">>,
     <<"albumin", "alb">>, <<"alkaline phosphatase", "k">>,
     <<"alkaline phosphatase", "p">>, <<"alkaline phosphatase", "phos">>,
     <<"alp", "alpha-fetoprotein">>, <<"alp", "p">>,
     <<"alpha-fetoprotein", "alp">>, <<"alpha-fetoprotein", "fe">>,
     <<"alpha-fetoprotein", "p">>, <<"aptt", "p">>, <<"aptt", "pt">>,
     <<"aptt", "ptt">>, <<"aspartate aminotransferase", "fe">>,
     <<"aspartate aminotransferase", "p">>, <<"b12", "vitamin b12">>,
     <<"baso", "basophils">>, <<"basophils", "baso">>, <<"basophils", "p">>,
     <<"c-reactive protein", "p">>, <<"ca", "ca 125">>, <<"ca", "ca 19-9">>,
     <<"ca", "ca-125">>, <<"ca", "ca-19-9">>, <<"ca", "ca125">>,
     <<"ca", "ca19-9">>, <<"ca", "ca199">>, <<"ca", "calcium">>,
     <<"ca", "carcinoembryonic antigen">>, <<"ca", "procalcitonin">>,
     <<"ca 125", "ca">>, <<"ca 19-9", "ca">>, <<"ca-125", "ca">>,
     <<"ca-19-9", "ca">>, <<"ca125", "ca">>, <<"ca19-9", "ca">>,
     <<"ca199", "ca">>, <<"calcium", "ca">>,
     <<"carcinoembryonic antigen", "ca">>, <<"chol", "cholesterol">>,
     <<"chol", "hdl cholesterol">>, <<"chol", "ldl cholesterol">>,
     <<"cholesterol", "chol">>, <<"cholesterol", "hdl cholesterol">>,
     <<"cholesterol", "ldl cholesterol">>, <<"cr", "crea">>,
     <<"cr", "creatinine">>, <<"cr", "crp">>, <<"cr", "hematocrit">>,
     <<"crea", "cr">>, <<"crea", "creatinine">>, <<"creatinine", "cr">>,
     <<"creatinine", "crea">>, <<"crp", "cr">>, <<"crp", "p">>,
     <<"cystatin", "cystatin c">>, <<"cystatin c", "cystatin">>,
     <<"egfr", "gfr">>, <<"eos", "eosinophils">>, <<"eosinophils", "eos">>,
     <<"eosinophils", "p">>, <<"fe", "alanine aminotransferase">>,
     <<"fe", "alpha-fetoprotein">>, <<"fe", "aspartate aminotransferase">>,
     <<"fe", "ferritin">>, <<"fe", "transferrin">>, <<"ferritin", "fe">>,
     <<"free t3", "t3">>, <<"free t4", "t4">>, <<"ft3", "t3">>,
     <<"ft4", "t4">>, <<"gfr", "egfr">>, <<"glu", "glucose">>,
     <<"glucose", "glu">>, <<"hb", "hba1c">>,
     <<"hb", "ru:~h~b~a1~c (glikirovannyj">>,
     <<"hb", "ru:glikirovannyj ~h~b">>, <<"hb", "ru:sr. sod. ~h~b">>,
     <<"hba1c", "a1c">>, <<"hba1c", "hb">>,
     <<"hba1c", "ru:~h~b~a1~c (glikirovannyj">>,
     <<"ru:~h~b~a1~c (glikirovannyj", "a1c">>,
     <<"ru:~h~b~a1~c (glikirovannyj", "hb">>,
     <<"ru:~h~b~a1~c (glikirovannyj", "hba1c">>,
     <<"ru:~h~b~a1~c (glikirovannyj", "ru:glikirovannyj">>,
     <<"hdl", "hdl cholesterol">>, <<"hdl", "hdl-c">>,
     <<"hdl cholesterol", "chol">>, <<"hdl cholesterol", "cholesterol">>,
     <<"hdl cholesterol", "hdl">>, <<"hdl-c", "hdl">>,
     <<"hematocrit", "cr">>, <<"hemoglobin", "mean cell hemoglobin">>,
     <<"interleukin-6", "k">>, <<"k", "alkaline phosphatase">>,
     <<"k", "interleukin-6">>, <<"k", "leukocytes">>,
     <<"ldl", "ldl cholesterol">>, <<"ldl", "ldl-c">>, <<"ldl", "vldl">>,
     <<"ldl cholesterol", "chol">>, <<"ldl cholesterol", "cholesterol">>,
     <<"ldl cholesterol", "ldl">>, <<"ldl-c", "ldl">>, <<"leukocytes", "k">>,
     <<"lym", "lymph">>, <<"lym", "lymphocytes">>, <<"lymph", "lym">>,
     <<"lymph", "lymphocytes">>, <<"lymph", "p">>, <<"lymphocytes", "lym">>,
     <<"lymphocytes", "lymph">>, <<"lymphocytes", "p">>, <<"mch", "mchc">>,
     <<"mchc", "mch">>, <<"mean cell hemoglobin", "hemoglobin">>,
     <<"mean platelet volume", "p">>, <<"mono", "monocytes">>,
     <<"monocytes", "mono">>, <<"mpv", "p">>, <<"na", "ru:khlor ~n~a">>,
     <<"neu", "neut">>, <<"neu", "neutrophils">>, <<"neut", "neu">>,
     <<"neut", "neutrophils">>, <<"neutrophils", "neu">>,
     <<"neutrophils", "neut">>, <<"neutrophils", "p">>, <<"p", "afp">>,
     <<"p", "alkaline phosphatase">>, <<"p", "alp">>,
     <<"p", "alpha-fetoprotein">>, <<"p", "aptt">>,
     <<"p", "aspartate aminotransferase">>, <<"p", "basophils">>,
     <<"p", "c-reactive protein">>, <<"p", "crp">>, <<"p", "eosinophils">>,
     <<"p", "lymph">>, <<"p", "lymphocytes">>,
     <<"p", "mean platelet volume">>, <<"p", "mpv">>, <<"p", "neutrophils">>,
     <<"p", "pct">>, <<"p", "phos">>, <<"p", "phosphorus">>,
     <<"p", "platelets">>, <<"p", "plt">>, <<"p", "potassium">>,
     <<"p", "procalcitonin">>, <<"p", "progesterone">>, <<"p", "prolactin">>,
     <<"p", "prostate specific antigen">>, <<"p", "prothrombin time">>,
     <<"p", "psa">>, <<"p", "pt">>, <<"p", "ptt">>, <<"p", "sgpt">>,
     <<"p", "total protein">>, <<"p", "tp">>, <<"pct", "p">>,
     <<"phos", "alkaline phosphatase">>, <<"phos", "p">>,
     <<"phos", "phosphorus">>, <<"phosphorus", "p">>,
     <<"phosphorus", "phos">>, <<"platelets", "p">>, <<"plt", "p">>,
     <<"potassium", "p">>, <<"procalcitonin", "ca">>,
     <<"procalcitonin", "p">>, <<"progesterone", "p">>, <<"prolactin", "p">>,
     <<"prostate specific antigen", "p">>, <<"prothrombin time", "p">>,
     <<"psa", "p">>, <<"pt", "aptt">>, <<"pt", "p">>, <<"pt", "ptt">>,
     <<"pt", "sgpt">>, <<"ptt", "aptt">>, <<"ptt", "p">>, <<"ptt", "pt">>,
     <<"rdw", "rdw-cv">>, <<"rdw", "rdw-sd">>, <<"rdw-cv", "rdw">>,
     <<"rdw-sd", "rdw">>, <<"sgpt", "p">>, <<"sgpt", "pt">>,
     <<"t3", "free t3">>, <<"t3", "ft3">>, <<"t4", "free t4">>,
     <<"t4", "ft4">>, <<"total protein", "p">>, <<"tp", "p">>,
     <<"transferrin", "fe">>, <<"vitamin b12", "b12">>,
     <<"vitamin d", "25-oh vitamin d">>, <<"vldl", "ldl">>,
     <<"ru:aktivirovannoe chastichnoe tromboplastinovoe vremya", "ru:ast">>,
     <<"ru:ast", "ru:aktivirovannoe chastichnoe tromboplastinovoe vremya">>,
     <<"ru:bazofil", "ru:bazofily">>, <<"ru:bazofily", "ru:bazofil">>,
     <<"ru:v12", "ru:vitamin v12">>, <<"ru:vitamin v12", "ru:v12">>,
     <<"ru:vitamin d", "ru:25-on vitamin d">>,
     <<"ru:gemoglobin", "ru:glikirovannyj gemoglobin">>,
     <<"ru:gemoglobin", "ru:glikogemoglobin">>,
     <<"ru:gemoglobin", "ru:sr. konts. gemoglobina">>,
     <<"ru:gemoglobin", "ru:sr. soderzh. gemoglobina">>,
     <<"ru:glikirovannyj", "ru:~h~b~a1~c (glikirovannyj">>,
     <<"ru:glikirovannyj", "ru:glikirovannyj ~h~b">>,
     <<"ru:glikirovannyj", "ru:glikirovannyj gemoglobin">>,
     <<"ru:glikirovannyj ~h~b", "hb">>,
     <<"ru:glikirovannyj ~h~b", "ru:glikirovannyj">>,
     <<"ru:glikirovannyj gemoglobin", "ru:gemoglobin">>,
     <<"ru:glikirovannyj gemoglobin", "ru:glikirovannyj">>,
     <<"ru:glikogemoglobin", "ru:gemoglobin">>,
     <<"ru:zhelezo", "ru:syvorotochnoe zhelezo">>,
     <<"ru:limfotsit", "ru:limfotsity">>,
     <<"ru:limfotsity", "ru:limfotsit">>,
     <<"ru:lpvp", "ru:lpvp-kholesterin">>, <<"ru:lpvp", "ru:ne-lpvp">>,
     <<"ru:lpvp", "ru:kholesterin ne-lpvp">>,
     <<"ru:lpvp", "ru:kholesterin-lpvp">>, <<"ru:lpvp", "ru:khs-lpvp">>,
     <<"ru:lpvp-kholesterin", "ru:lpvp">>,
     <<"ru:lpvp-kholesterin", "ru:kholesterin">>,
     <<"ru:lpnp", "ru:lpnp-kholesterin">>,
     <<"ru:lpnp", "ru:kholesterin-lpnp">>, <<"ru:lpnp", "ru:khs lpnp">>,
     <<"ru:lpnp", "ru:khs-lpnp">>, <<"ru:lpnp-kholesterin", "ru:lpnp">>,
     <<"ru:lpnp-kholesterin", "ru:kholesterin">>,
     <<"ru:monotsit", "ru:monotsity">>, <<"ru:monotsity", "ru:monotsit">>,
     <<"ru:ne-lpvp", "ru:lpvp">>, <<"ru:ne-lpvp", "ru:kholesterin ne-lpvp">>,
     <<"ru:nejtrofil", "ru:nejtrofily">>,
     <<"ru:nejtrofily", "ru:nejtrofil">>,
     <<"ru:obshchij kholesterin", "ru:kholesterin">>,
     <<"ru:sv. t3", "ru:t3">>, <<"ru:sv. t4", "ru:t4">>,
     <<"ru:svobodnyj t3", "ru:t3">>, <<"ru:svobodnyj t4", "ru:t4">>,
     <<"ru:sr. konts. gemoglobina", "ru:gemoglobin">>,
     <<"ru:sr. sod. ~h~b", "hb">>,
     <<"ru:sr. soderzh. gemoglobina", "ru:gemoglobin">>,
     <<"ru:syvorotochnoe zhelezo", "ru:zhelezo">>, <<"ru:t3", "ru:sv. t3">>,
     <<"ru:t3", "ru:svobodnyj t3">>, <<"ru:t4", "ru:sv. t4">>,
     <<"ru:t4", "ru:svobodnyj t4">>, <<"ru:khlor", "ru:khlor ~n~a">>,
     <<"ru:khlor", "ru:khloridy">>, <<"ru:khlor ~n~a", "na">>,
     <<"ru:khlor ~n~a", "ru:khlor">>, <<"ru:khloridy", "ru:khlor">>,
     <<"ru:kholesterin", "ru:lpvp-kholesterin">>,
     <<"ru:kholesterin", "ru:lpnp-kholesterin">>,
     <<"ru:kholesterin", "ru:obshchij kholesterin">>,
     <<"ru:kholesterin", "ru:kholesterin ne-lpvp">>,
     <<"ru:kholesterin", "ru:kholesterin-lpvp">>,
     <<"ru:kholesterin", "ru:kholesterin-lpnp">>,
     <<"ru:kholesterin ne-lpvp", "ru:lpvp">>,
     <<"ru:kholesterin ne-lpvp", "ru:ne-lpvp">>,
     <<"ru:kholesterin ne-lpvp", "ru:kholesterin">>,
     <<"ru:kholesterin-lpvp", "ru:lpvp">>,
     <<"ru:kholesterin-lpvp", "ru:kholesterin">>,
     <<"ru:kholesterin-lpnp", "ru:lpnp">>,
     <<"ru:kholesterin-lpnp", "ru:kholesterin">>,
     <<"ru:khs lpnp", "ru:lpnp">>, <<"ru:khs-lpvp", "ru:lpvp">>,
     <<"ru:khs-lpnp", "ru:lpnp">>, <<"ru:tsistatin", "ru:tsistatin s">>,
     <<"ru:tsistatin s", "ru:tsistatin">>,
     <<"ru:ehozinofil", "ru:ehozinofily">>,
     <<"ru:ehozinofily", "ru:ehozinofil">>}

(* The table-row name that is the alias a itself: it is related to a and   *)
(* to every alias in relation with a.  (An alias always finds a marker, so *)
(* the direct mappings are not consulted.)                                 *)
AliasName(a) ==
    Name(a, {a} \cup {r[2] : r \in {x \in AliasRelations : x[1] = a}}, <<>>)

(* match_marker_name: the first marker, in dictionary order, with an alias *)
(* related to the name; then the direct mappings; else None.               *)
match_marker_name(name) ==
    LET hit == {i \in 1..Len(MarkerFields) :
                  MARKER_ALIASES[MarkerFields[i]] \cap name.related # {}}
    IN IF hit # {} THEN MarkerFields[Min(hit)]
       ELSE IF name.direct # <<>> THEN name.direct[1]
       ELSE NoneStr

(* A row as parse_lab_row returns it (numbers in tenths).                  *)
Row(name, value, unit, reference_min, reference_max) ==
    [name |-> name, value |-> value, unit |-> unit,
     reference_min |-> reference_min, reference_max |-> reference_max]

(* Python truthiness of an optional number: None and 0 are false.          *)
Truthy(x) == x # None /\ x # 0

(* "not existing or (not existing.get('reference_min') and                 *)
(* item.get('reference_min'))"                                             *)
MergeReplaces(markers, marker_key, item) ==
    \/ marker_key \notin DOMAIN markers
    \/ /\ ~Truthy(markers[marker_key].reference_min)
       /\ Truthy(item.reference_min)

(* The entry the merge writes for a row.                                   *)
TableObservation(item) ==
    [value |-> item.value, unit |-> item.unit,
     reference_min |-> item.reference_min,
     reference_max |-> item.reference_max,
     status |-> calculate_status(item.value, item.reference_min,
                                 item.reference_max),
     confidence |-> ConfHigh, raw_text |-> <<item.name.txt>>]

(* One turn of "for item in table_data".                                   *)
MergeRow(markers, item) ==
    LET marker_key == match_marker_name(item.name)
    IN IF marker_key # NoneStr /\ MergeReplaces(markers, marker_key, item)
       THEN [f \in DOMAIN markers \cup {marker_key} |->
               IF f = marker_key THEN TableObservation(item) ELSE markers[f]]
       ELSE markers

(***************************************************************************)
(* The table-row parser (app/services/pdf_parser.py, parse_lab_row).       *)
(*                                                                         *)
(* A cell is described by what the parser's tests see in it (the text is   *)
(* the stripped cell): filled (not empty), named (len > 1 and not          *)
(* isdigit()), and the matches of the three expressions                    *)
(*   num  a number, white space, unit-class characters: the whole cell,    *)
(*   rng  number - number (hyphen or dash), anywhere in the cell,          *)
(*   sgl  a sign < or > (or their "or equal" forms), then a number,        *)
(*        anywhere in the cell.                                            *)
(***************************************************************************)

Cell(txt, filled, named, num, rng, sgl) ==
    [txt |-> txt, filled |-> filled, named |-> named, num |-> num,
     rng |-> rng, sgl |-> sgl]

L140 == Lit("140", 140, "", 0, "140")
L120 == Lit("120", 120, "", 0, "120")
L160 == Lit("160", 160, "", 0, "160")
L19 == Lit("19", 19, "", 0, "19")
L9 == Lit("9", 9, "", 0, "9")
L7 == Lit("7", 7, "", 0, "7")
L3c5 == Lit("3,5", 3, ",", 5, "3")
L5c5 == Lit("5,5", 5, ",", 5, "5")

NumMatch(value, unit) == [found |-> TRUE, value |-> value, unit |-> unit]
RngMatch(min, max) == [found |-> TRUE, min |-> min, max |-> max]
SglMatch(less, val) == [found |-> TRUE, less |-> less, val |-> val]

(* The cells of the model's rows: labels (one of a single letter, one that *)
(* holds "19-9"), measurements with and without a unit, a bare digit,      *)
(* ranges written tight and wide, single bounds, a blank cell.  The tight  *)
(* range "120-160" also has the measurement shape: 120 with unit "-160".   *)
CHgb == Cell("ru:Gemoglobin", TRUE, TRUE, NoMatch, NoMatch, NoMatch)
CAlt == Cell("ru:ALT", TRUE, TRUE, NoMatch, NoMatch, NoMatch)
CK == Cell("K", TRUE, FALSE, NoMatch, NoMatch, NoMatch)
CCa199 == Cell("CA 19-9", TRUE, TRUE, NoMatch, RngMatch(L19, L9), NoMatch)
CValueUnit ==
    Cell("ru:140 g/l", TRUE, TRUE, NumMatch(L140, "ru:g/l"), NoMatch, NoMatch)
CValue == Cell("5,8", TRUE, TRUE, NumMatch(L5c8, ""), NoMatch, NoMatch)
CDigit == Cell("7", TRUE, FALSE, NumMatch(L7, ""), NoMatch, NoMatch)
CRange ==
    Cell("120-160", TRUE, TRUE, NumMatch(L120, "-160"), RngMatch(L120, L160),
         NoMatch)
CRangeWide ==
    Cell("3,5 - 5,5", TRUE, TRUE, NoMatch, RngMatch(L3c5, L5c5), NoMatch)
CLess == Cell("<5", TRUE, TRUE, NoMatch, NoMatch, SglMatch(TRUE, L5))
CMore == Cell(">5", TRUE, TRUE, NoMatch, NoMatch, SglMatch(FALSE, L5))
CBlank == Cell(" ", FALSE, FALSE, NoMatch, NoMatch, NoMatch)

(* parse_lab_row returning None.                                           *)
NoRow == [none |-> TRUE]

(* The locals of parse_lab_row before the loop.                            *)
ParseLocals(row) ==
    [row |-> row, i |-> 1, at |-> "loop", marker_name |-> NoneStr,
     value |-> None, unit |-> NoneStr, ref_min |-> None, ref_max |-> None,
     returned |-> NoRow]

(* A variant of CellStep whose measurement test does not ask whether a     *)
(* value has been taken: every cell of measurement shape is the value.     *)
CellStepLastValue(st, cell) ==
    IF ~cell.filled THEN st
    ELSE IF cell.num.found
    THEN [st EXCEPT !.value = ParseFloat(cell.num.value),
                    !.unit = IF cell.num.unit # "" THEN cell.num.unit ELSE @]
    ELSE IF cell.rng.found
    THEN [st EXCEPT !.ref_min = ParseFloat(cell.rng.min),
                    !.ref_max = ParseFloat(cell.rng.max)]
    ELSE st

(* The body of "for i, cell in enumerate(row)" for one cell.               *)
CellStep(st, cell) ==
    IF ~cell.filled THEN st
    ELSE IF cell.num.found /\ st.value = None
    THEN [st EXCEPT !.value = ParseFloat(cell.num.value),
                    !.unit = IF cell.num.unit # "" THEN cell.num.unit ELSE @]
    ELSE IF cell.rng.found
    THEN [st EXCEPT !.ref_min = ParseFloat(cell.rng.min),
                    !.ref_max = ParseFloat(cell.rng.max)]
    ELSE IF cell.sgl.found
    THEN LET bound == ParseFloat(cell.sgl.val)
         IN IF cell.sgl.less
            THEN [st EXCEPT !.ref_min = 0, !.ref_max = bound]
            ELSE [st EXCEPT !.ref_min = bound, !.ref_max = bound * 10]
    ELSE IF st.marker_name = NoneStr /\ cell.named
    THEN [st EXCEPT !.marker_name = cell.txt]
    ELSE st

(* The value returned after the loop: the observation, or None.            *)
RowResult(st) ==
    IF st.marker_name # NoneStr /\ st.value # None
    THEN [name |-> st.marker_name, value |-> st.value, unit |-> st.unit,
          reference_min |-> st.ref_min, reference_max |-> st.ref_max]
    ELSE NoRow

RECURSIVE ParseCells(_, _)
ParseCells(st, n) ==
    IF n > Len(st.row) THEN st
    ELSE ParseCells(CellStep(st, st.row[n]), n + 1)

(* parse_lab_row(row) as one function.                                     *)
parse_lab_row(row) ==
    IF Len(row) < 2 THEN NoRow ELSE RowResult(ParseCells(ParseLocals(row), 1))

(***************************************************************************)
(* Encounters (app/services/encounters.py, app/api/endpoints/              *)
(* encounters.py).                                                         *)
(*                                                                         *)
(* JSON values are tagged: Null, Str(s), List(items), Dict(d).  A dict is  *)
(* a function over the keys the model uses, Missing where the key is       *)
(* absent; NoDict is Python's None where a dict is optional.  A time is a  *)
(* reading of the clock, None where the column is NULL.                    *)
(***************************************************************************)

Null == [null |-> TRUE]
Str(s) == [str |-> s]
List(items) == [list |-> items]
Dict(d) == [dict |-> d]
Missing == [missing |-> TRUE]
NoDict == [none |-> TRUE]

(* A row the table does not hold; the ids uuid4 can draw.                  *)
NoEncounter == [none |-> TRUE]
EncounterIds == {"enc-1"}

IsList(v) == "list" \in DOMAIN v

StateKeys == {"flow_step", "conversation_history_ref", "messages", "context"}

ContextKeys == {"symptom", "next_step"}

(* {} over a key universe, and a dict literal laid over it.                *)
EmptyDict(keys) == [k \in keys |-> Missing]

(* {**a, **b} *)
Overlay(a, b) == [k \in DOMAIN a |-> IF b[k] # Missing THEN b[k] ELSE a[k]]

(* bool(d) of an optional dict: None and {} are false.                     *)
DictTruthy(d) == d # NoDict /\ \E k \in DOMAIN d : d[k] # Missing

DEFAULT_STATE ==
    [flow_step |-> Null, conversation_history_ref |-> Null,
     messages |-> List(<<>>), context |-> Dict(EmptyDict(ContextKeys))]

(* _merge_state *)
merge_state(current, update) ==
    LET state == Overlay(DEFAULT_STATE,
                         IF current = NoDict THEN EmptyDict(StateKeys)
                         ELSE current)
    IN IF DictTruthy(update)
       THEN [key \in StateKeys |->
               IF update[key] = Missing THEN state[key]
               ELSE IF key = "messages" /\ IsList(update[key]) THEN update[key]
               ELSE IF update[key] # Null THEN update[key]
               ELSE state[key]]
       ELSE state

(* A variant of get_owned_encounter that does not look at the owner.       *)
get_owned_encounter_any_user(table, encounter_id, user_id) ==
    IF encounter_id \notin DOMAIN table \/ table[encounter_id] = NoEncounter
    THEN 404
    ELSE 200

(* _get_owned_encounter: 404 for an id the table does not hold, 403 for a  *)
(* row of another user, else the row is returned (200).                    *)
get_owned_encounter(table, encounter_id, user_id) ==
    IF encounter_id \notin DOMAIN table \/ table[encounter_id] = NoEncounter
    THEN 404
    ELSE IF table[encounter_id].user_id # user_id THEN 403
    ELSE 200

(* A variant of ensure_can_pause that also lets a paused encounter pass.   *)
ensure_can_pause_or_paused(encounter) ==
    encounter.status \in {"active", "paused"}

(* _ensure_can_pause, _ensure_can_resume and the guard of append_message:  *)
(* TRUE when the guard passes (no 409).                                    *)
ensure_can_pause(encounter) == encounter.status = "active"

ensure_can_resume(encounter) == encounter.status = "paused"

ensure_can_append(encounter) == encounter.status = "active"

(* The row create_encounter adds.                                          *)
NewEncounter(id, user_id, initial_state, t) ==
    [id |-> id, user_id |-> user_id, status |-> "active",
     state_json |-> merge_state(NoDict, initial_state), created_at |-> t,
     updated_at |-> t, paused_at |-> None, resumed_at |-> None,
     last_activity_at |-> t]

(* The assignments of pause_encounter, resume_encounter and                *)
(* complete_encounter once their guards have passed; the commit sets       *)
(* updated_at (onupdate).                                                  *)
Paused(encounter, state_update, t) ==
    [encounter EXCEPT !.status = "paused", !.paused_at = t,
                      !.last_activity_at = t,
                      !.state_json = merge_state(@, state_update),
                      !.updated_at = t]

Resumed(encounter, t) ==
    [encounter EXCEPT !.status = "active", !.resumed_at = t,
                      !.last_activity_at = t, !.updated_at = t]

(* A variant of Completed without the early return.                        *)
CompletedAgain(encounter, t) ==
    [encounter EXCEPT !.status = "completed", !.last_activity_at = t,
                      !.updated_at = t]

Completed(encounter, t) ==
    IF encounter.status \in {"completed", "cancelled"} THEN encounter
    ELSE [encounter EXCEPT !.status = "completed", !.last_activity_at = t,
                           !.updated_at = t]

(* list(x) of Python on the values the model stores under "messages": a    *)
(* list is copied, a string gives its characters.                          *)
Characters == ("x" :> <<Str("x")>>)

ListOf(v) == IF IsList(v) THEN v.list ELSE Characters[v.str]

(* The assignments of append_message once its guards have passed.          *)
Appended(encounter, content, role, flow_step, context, t) ==
    LET state == merge_state(encounter.state_json, NoDict)
        message == [role |-> role, content |-> content, timestamp |-> t]
        messages == Append(ListOf(state.messages), message)
    IN [encounter EXCEPT
          !.state_json =
              [state EXCEPT
                 !.messages = List(messages),
                 !.flow_step = IF flow_step # NoneStr THEN Str(flow_step)
                               ELSE @,
                 !.context = IF DictTruthy(context)
                             THEN Dict(Overlay(@.dict, context)) ELSE @],
          !.last_activity_at = t, !.updated_at = t]

(* _to_response *)
ToResponse(encounter) ==
    [id |-> encounter.id, user_id |-> encounter.user_id,
     status |-> encounter.status, state |-> encounter.state_json,
     created_at |-> encounter.created_at,
     updated_at |-> encounter.updated_at, paused_at |-> encounter.paused_at,
     resumed_at |-> encounter.resumed_at,
     last_activity_at |-> encounter.last_activity_at]

(***************************************************************************)
(* The legacy parser (app/services/invivo_blood_parser.py) and text        *)
(* normalisation (pdf_parser.normalize_text), on token sequences whose     *)
(* numbers stand in Num and Pair tokens.                                   *)
(***************************************************************************)

L5d8 == Lit("5.8", 5, ".", 8, "5.8")

(* normalize_text: a decimal comma becomes a point, line breaks at both    *)
(* ends are stripped, three or more line breaks in a row become two.       *)
DecimalPoint == ("5,8" :> L5d8)

NormalizeToken(tok) ==
    IF tok.k = "num" /\ tok.v.txt \in DOMAIN DecimalPoint
    THEN Num(DecimalPoint[tok.v.txt]) ELSE tok

NormalizeText(t) ==
    LET keep == {i \in 1..Len(t) :
                   \/ t[i].k # "nl"
                   \/ /\ \E a \in 1..i : t[a].k # "nl"
                      /\ \E b \in i..Len(t) : t[b].k # "nl"
                      /\ ~(i > 2 /\ t[i - 1].k = "nl" /\ t[i - 2].k = "nl")}
        Nth(n) == CHOOSE i \in keep : Cardinality({j \in keep : j < i}) = n - 1
    IN [n \in 1..Cardinality(keep) |-> NormalizeToken(t[Nth(n)])]

(* "not raw_text.strip()" *)
IsBlank(t) == \A i \in 1..Len(t) : t[i].k = "nl"

(* ALIASES, in key order. *)
LegacyKeys ==
    <<"hemoglobin", "rbc", "wbc", "platelets", "glucose", "cholesterol",
      "alt", "ast", "creatinine", "esr">>

ALIASES ==
    [hemoglobin |-> {"hemoglobin", "ru:gemoglobin"},
     rbc |-> {"rbc", "ru:ehritrotsity", "ru:ehritrotsitter"},
     wbc |-> {"wbc", "ru:lejkotsity", "ru:lejkotsitter"},
     platelets |-> {"platelets", "plt", "ru:trombotsity",
                    "ru:trombotsitter"},
     glucose |-> {"glucose", "ru:glyukoza"},
     cholesterol |-> {"cholesterol", "ru:kholesterin"},
     alt |-> {"alt", "ru:alt"},
     ast |-> {"ast", "ru:ast"},
     creatinine |-> {"creatinine", "ru:kreatinin"},
     esr |-> {"esr", "ru:soeh", "ru:ehtzh"}]

(* _empty_result *)
EmptyResult ==
    [key \in DOMAIN ALIASES |->
        [value |-> None, unit |-> NoneStr, confidence |-> 0]]

(* A variant of _set_result that also replaces at equal confidence.        *)
SetResultAtLeast(result, key, value, unit, confidence) ==
    IF value = None THEN result
    ELSE IF result[key].confidence <= confidence
    THEN [result EXCEPT ![key] = [value |-> value, unit |-> unit,
                                  confidence |-> confidence]]
    ELSE result

(* _set_result *)
SetResult(result, key, value, unit, confidence) ==
    IF value = None THEN result
    ELSE IF result[key].confidence < confidence
    THEN [result EXCEPT ![key] = [value |-> value, unit |-> unit,
                                  confidence |-> confidence]]
    ELSE result

(* "alias in line_lower": the keys with an alias inside the token.  The    *)
(* head of the combined notation holds an alias of alt and one of ast.     *)
LegacyHits(tok) ==
    IF tok.k = "pairlabel" THEN {"alt", "ast"}
    ELSE IF tok.k = "alias"
    THEN {key \in DOMAIN ALIASES : \E e \in tok.ends : e.alias \in ALIASES[key]}
    ELSE {}

(* The longest prefix of a token made of the legacy unit class             *)
(* [a-z<cyrillic>/%^0-9*.] (no hyphen).                                    *)
LegacyPre(tok) ==
    IF tok.k \in {"alias", "pairlabel", "unit", "lab", "pair"} THEN tok.txt
    ELSE IF tok.k = "num" THEN (IF tok.v.sep = "," THEN tok.v.pre ELSE tok.txt)
    ELSE ""

(* The first number of a token that holds one. *)
NumberOf(tok) == IF tok.k = "pair" THEN tok.a ELSE tok.v

(* What the unit expression  number \s* (class+)  finds inside a number    *)
(* that nothing of the class follows: the number gives up its last digit   *)
(* (or its fraction) to the unit group.                                    *)
GivenUp == ("140" :> "0") @@ ("5.8" :> ".8")

(* The unit group of the expression started at token i of a line.          *)
UnitAt(line, i) ==
    IF line[i].k = "pair" THEN line[i].tail
    ELSE IF i < Len(line) /\ LegacyPre(line[i + 1]) # ""
    THEN LegacyPre(line[i + 1])
    ELSE IF line[i].v.txt \in DOMAIN GivenUp THEN GivenUp[line[i].v.txt]
    ELSE NoneStr

(* _parse_value_and_unit *)
ParseValueAndUnit(line) ==
    LET digs == {i \in 1..Len(line) : line[i].dig}
        units == {i \in digs : UnitAt(line, i) # NoneStr}
    IN IF digs = {} THEN <<None, NoneStr>>
       ELSE <<ParseFloat(NumberOf(line[Min(digs)])),
              IF units = {} THEN NoneStr ELSE UnitAt(line, Min(units))>>

(* The optional unit group after a number at token j of the text: white    *)
(* space, line breaks included, then characters of the class.              *)
UnitAfter(s, j) ==
    IF s[j].k = "pair" THEN NoneStr
    ELSE LET u == NextTok(s, j + 1)
         IN IF u # 0 /\ LegacyPre(s[u]) # "" THEN LegacyPre(s[u])
            ELSE NoneStr

(* The combined pass: every match of the pattern in turn, each with the    *)
(* optional unit group after its pair.  (A later head swallowed by that    *)
(* unit group is listed too: at equal confidence it writes nothing.)       *)
RECURSIVE LegacyCombined(_, _, _, _)
LegacyCombined(result, s, ms, n) ==
    IF n > Len(ms) THEN result
    ELSE LET pair == s[ms[n][2]]
             u == NextTok(s, ms[n][2] + 1)
             unit == IF u # 0 /\ LegacyPre(s[u]) # "" THEN LegacyPre(s[u])
                     ELSE NoneStr
             r1 == SetResult(result, "alt", ParseFloat(pair.a), unit, ConfHigh)
             r2 == SetResult(r1, "ast", ParseFloat(pair.b), unit, ConfHigh)
         IN LegacyCombined(r2, s, ms, n + 1)

(* The body of "for line in lines" for one line.                           *)
LegacyLine(result, line) ==
    LET vu == ParseValueAndUnit(line)
        hit == UNION {LegacyHits(line[i]) : i \in 1..Len(line)}
    IN [key \in DOMAIN ALIASES |->
          IF key \in hit
          THEN SetResult(result, key, vu[1], vu[2], ConfHigh)[key]
          ELSE result[key]]

RECURSIVE LegacyLines(_, _, _)
LegacyLines(result, lines, n) ==
    IF n > Len(lines) THEN result
    ELSE LegacyLines(LegacyLine(result, lines[n]), lines, n + 1)

(* The fallback search for one key over the whole text:                    *)
(* alias, no digits, number, optional unit.                                *)
LegacyFallback(result, s, key) ==
    LET heads == {i \in 1..Len(s) :
                    /\ key \in LegacyHits(s[i])
                    /\ \E j \in (i + 1)..Len(s) : s[j].dig}
    IN IF result[key].confidence > 0 \/ heads = {} THEN result[key]
       ELSE LET j == Min({x \in (Min(heads) + 1)..Len(s) : s[x].dig})
            IN SetResult(result, key, ParseFloat(NumberOf(s[j])),
                         IF s[j].k = "pair" THEN s[j].tail
                         ELSE UnitAfter(s, j),
                         ConfFallback)[key]

(* parse_invivo_blood *)
parse_invivo_blood(s) ==
    LET combined == LegacyCombined(EmptyResult, s, AltAstMatches(s), 1)
        lined == LegacyLines(combined, SplitLines(s), 1)
    IN [key \in DOMAIN ALIASES |-> LegacyFallback(lined, s, key)]

(* A variant of UploadResponse that lists as missing every key below full  *)
(* confidence.                                                             *)
UploadResponseLowConfidence(raw_text) ==
    LET extracted == parse_invivo_blood(NormalizeText(raw_text))
    IN [status_code |-> 200, extracted |-> extracted,
        missing |-> SelectSeq(LegacyKeys,
                        LAMBDA key : extracted[key].confidence < ConfHigh)]

(* The body of the /upload-pdf response for a text that is not blank.      *)
UploadResponse(raw_text) ==
    LET extracted == parse_invivo_blood(NormalizeText(raw_text))
    IN [status_code |-> 200, extracted |-> extracted,
        missing |-> SelectSeq(LegacyKeys,
                              LAMBDA key : extracted[key].value = None)]

(* extract_lab_data_from_tables: the observations of the rows of at least  *)
(* two cells that parse_lab_row turns into one, table after table, row     *)
(* after row.                                                              *)
RECURSIVE TableResults(_, _, _)
TableResults(table, n, results) ==
    IF n > Len(table) THEN results
    ELSE IF Len(table[n]) < 2 THEN TableResults(table, n + 1, results)
    ELSE LET marker_data == parse_lab_row(table[n])
         IN TableResults(table, n + 1,
                IF marker_data # NoRow THEN Append(results, marker_data)
                ELSE results)

RECURSIVE TablesResults(_, _, _)
TablesResults(tables, n, results) ==
    IF n > Len(tables) THEN results
    ELSE TablesResults(tables, n + 1, TableResults(tables[n], 1, results))

extract_lab_data_from_tables(tables) == TablesResults(tables, 1, <<>>)

(***************************************************************************)
(* The audio analysis WebSocket (app/api/endpoints/analysis.py).  The      *)
(* handler is followed from await to await; the remote services answer     *)
(* with any of the results transcribe_audio and generate_soap_analysis can *)
(* return or raise, and the client may go away at any moment.              *)
(***************************************************************************)

MinAudioBytes == 1000

MinTranscriptChars == 20

(* len() of the transcripts of the model.                                  *)
Length ==
    ("" :> 0) @@ ("SPEAKER_0: cough?" :> 17)
       @@ ("SPEAKER_0: headache." :> 20)
       @@ ("Doctor: what brings you in? Patient: a cough." :> 45)

Transcripts == DOMAIN Length

(* An exception raised inside a call.                                      *)
Raised == [raised |-> TRUE]

(* What transcribe_audio returns: the error dict (no key, or a status      *)
(* other than 200), the dict with the text, or an exception of the client. *)
Transcriptions ==
    {[error |-> "Transcription failed: 500", text |-> "",
      language |-> NoneStr]}
       \cup {[error |-> NoneStr, text |-> t, language |-> "ru"] :
                t \in Transcripts}
       \cup {Raised}

(* A dict returned by generate_soap_analysis: "error" is NoneStr when the  *)
(* key is absent, a field that is absent or empty is "".                   *)
Analysis(error, subjective, plan, dialogueProtocol) ==
    [error |-> error, subjective |-> subjective, objective |-> "",
     assessment |-> "", plan |-> plan, dialogueProtocol |-> dialogueProtocol]

(* What generate_soap_analysis returns for a transcript: the error dict,   *)
(* the parsed answer of the model (with or without an "error" key, with or *)
(* without filled fields, or JSON that is not an object), or the dict      *)
(* built when the answer is not JSON.                                      *)
Analyses(transcript) ==
    {Analysis("Analysis failed: 500", "", "", ""),
     Analysis("partial", "", "rest", ""),
     Analysis(NoneStr, "cough for a week", "rest", "SPEAKER_0: cough"),
     Analysis(NoneStr, "cough for a week", "", ""),
     Analysis(NoneStr, "", "", ""),
     Analysis(NoneStr, "", "", transcript),
     List(<<>>)}

(* any([subjective, objective, assessment, plan, dialogueProtocol])        *)
HasContent(analysis) ==
    \E field \in {"subjective", "objective", "assessment", "plan",
                   "dialogueProtocol"} : analysis[field] # ""

(* "error" in analysis and not any([...])                                  *)
BareError(analysis) == analysis.error # NoneStr /\ ~HasContent(analysis)

(* A variant of WithProtocol that sends the analysis as returned.          *)
WithoutProtocol(analysis, transcript_text) == analysis

(* if not analysis.get("dialogueProtocol"): analysis["dialogueProtocol"] = *)
(* transcript_text                                                         *)
WithProtocol(analysis, transcript_text) ==
    IF analysis.dialogueProtocol = ""
    THEN [analysis EXCEPT !.dialogueProtocol = transcript_text]
    ELSE analysis

ErrorMessage(message) == [status |-> "error", message |-> message]

(***************************************************************************)
(* The state.                                                              *)
(***************************************************************************)

VARIABLES
    patterns,    \* the compiled patterns of the module-level extractor
    text,        \* per call: the (normalised) text passed to extract
    table_data,  \* per call: the rows read from the PDF's tables
    pc,          \* per call: where the call stands
    idx,         \* per call: the index of the running loop
    result,      \* per slot: the local `result` of extract
    response,    \* per call: the dictionary built for the caller
    probe,       \* the last status computation made on its own
    parse,       \* the locals of the running parse_lab_row call
    db,          \* the encounters table: id -> row
    now,         \* the clock read by _utcnow
    reply,       \* the last response of the encounters API
    sessions,    \* per worker: the database session of its request
    ws           \* the audio-analysis WebSocket connection

(* The variables outside the blood-analysis pipeline.                      *)
sideVars == <<parse, db, now, reply, sessions, ws>>

vars ==
    <<patterns, text, table_data, pc, idx, result, response, probe, parse, db,
      now, reply, sessions, ws>>

NoResponse == [none |-> TRUE]
NoProbe == [none |-> TRUE]
NoParse == [none |-> TRUE]
NoReply == [none |-> TRUE]
NoSession == [at |-> "idle"]
NoSocket ==
    [at |-> "connecting", connected |-> FALSE, closed |-> FALSE,
     audio_data |-> None, transcript_text |-> "", analysis |-> NoDict,
     pending |-> NoDict, sent |-> <<>>, steps |-> <<>>]

(* The workers that serve requests at the same time, each with a session   *)
(* of its own (get_session).                                               *)
Workers == {1, 2}

(* A variant of Slot in which all calls keep `result` in one place.        *)
SlotShared(c) == 1

(* Where a call keeps its local `result`: each call has its own frame.     *)
Slot(c) == c

(* All token sequences of length at most n over an alphabet.               *)
SeqsUpTo(alphabet, n) == UNION {[1..k -> alphabet] : k \in 0..n}

(* The texts of the pipeline runs: markers, the combined notation,         *)
(* numbers, a unit, a laboratory name, line breaks.                        *)
Alphabet ==
    {THgb, TAlt, TFer, TAltAst, TPair, TPair2, Num(L100), Num(L65), TUnit,
     TLab, NL}

(* Two texts that hold a notation twice: the combined one, and a marker's  *)
(* line.                                                                   *)
RepeatedTexts ==
    {<<TAltAst, TPair, NL, TAltAst, TPair2>>,
     <<THgb, Num(L100), NL, THgb, Num(L65)>>}

Texts == SeqsUpTo(Alphabet, MaxLen) \cup RepeatedTexts

(* The lines of the reference-range runs: a marker name, what stands for   *)
(* its value, then units, numbers and ranges in every notation.            *)
RangeAlphabet ==
    {Num(L10), TGl, TWord, TRange, TRangeRev, TPRange, TLabeled, TPLabeled,
     TPLabeledRev, TLess, TMore}

RangeTexts ==
    {<<a, v>> \o t : a \in {TFer, THgb}, v \in {Num(L10), Num(L5c8), TRange},
                     t \in SeqsUpTo(RangeAlphabet, MaxRangeLen)}
        \cup {<<TAltAst, TPair, TLabeled>>}

(* The texts of the concurrent runs.                                       *)
ConcTexts ==
    {<<>>, <<TAltAst, TPair>>, <<TAlt, Num(L65), TUnit>>,
     <<TDate, THgb, NL, Num(L145)>>, <<TAltAst, TPair2, NL, THgb, Num(L100)>>}

(* The texts and table rows of the /extract-nlp runs.                      *)
NlpTexts ==
    {<<>>, <<TAlt, Num(L23)>>, <<TFer, Num(L10)>>,
     <<TFer, Num(L10), TPRange>>, <<TAltAst, TPair>>}

Rows ==
    {Row(NAlt, 300, "U/L", 100, 500), Row(NAlt, 300, "U/L", None, None),
     Row(NFer, 120, NoneStr, 0, 1500), Row(NFer, 120, NoneStr, 200, 2500),
     Row(NFer, 120, NoneStr, None, None), Row(NTotal, 50, NoneStr, None, None)}

(* The one-line texts "A: 10", one per alias A of the dictionary.          *)
AliasTexts == {AliasLine(a) : a \in UNION {MARKER_ALIASES[m] : m \in Markers}}

(* The values and bounds of the status computations made on their own      *)
(* (tenths).                                                               *)
ProbeValues == 0..MaxValue

ProbeBounds == {None} \cup (0..MaxValue)

InitCalls(calls) ==
    /\ patterns = CompilePatterns
    /\ text = [c \in calls |-> <<>>]
    /\ table_data = [c \in calls |-> <<>>]
    /\ pc = [c \in calls |-> "idle"]
    /\ idx = [c \in calls |-> 1]
    /\ result = [s \in calls |-> EmptyExtraction]
    /\ response = [c \in calls |-> NoResponse]
    /\ probe = NoProbe
    /\ parse = NoParse
    /\ db = [id \in EncounterIds |-> NoEncounter]
    /\ now = 0
    /\ reply = NoReply
    /\ sessions = [w \in Workers |-> NoSession]
    /\ ws = NoSocket

(* One request at a time, or NCalls requests in flight at once.            *)
Calls == {1}

ConcCalls == 1..NCalls

Init == InitCalls(Calls)

InitConc == InitCalls(ConcCalls)

(***************************************************************************)
(* extract_blood_analysis(text): entry.                                    *)
(***************************************************************************)

Enter(c, t, rows) ==
    /\ text' = [text EXCEPT ![c] = t]
    /\ table_data' = [table_data EXCEPT ![c] = rows]
    /\ response' = [response EXCEPT ![c] = NoResponse]
    /\ idx' = [idx EXCEPT ![c] = 1]
    /\ UNCHANGED <<patterns, result, probe>>
    /\ UNCHANGED sideVars

Call(c) ==
    \E t \in Texts :
        /\ pc[c] = "idle"
        /\ Enter(c, t, <<>>)
        /\ pc' = [pc EXCEPT ![c] = "start"]

CallRange(c) ==
    \E t \in RangeTexts :
        /\ pc[c] = "idle"
        /\ Enter(c, t, <<>>)
        /\ pc' = [pc EXCEPT ![c] = "start"]

(* A request on the shared extractor; a worker that has answered takes     *)
(* the next one.                                                           *)
CallConc(c) ==
    \E t \in ConcTexts :
        /\ pc[c] \in {"idle", "done"}
        /\ Enter(c, t, <<>>)
        /\ pc' = [pc EXCEPT ![c] = "start"]

CallAlias(c) ==
    \E t \in AliasTexts :
        /\ pc[c] = "idle"
        /\ Enter(c, t, <<>>)
        /\ pc' = [pc EXCEPT ![c] = "start"]

(* extract_blood_nlp up to the call of extract_blood_analysis: no text and *)
(* no table row is answered 422.                                           *)
CallNlp(c) ==
    \E t \in NlpTexts, rows \in SeqsUpTo(Rows, MaxRows) :
        /\ pc[c] = "idle"
        /\ Enter(c, t, rows)
        /\ pc' = [pc EXCEPT ![c] =
                    IF t = <<>> /\ rows = <<>> THEN "rejected" ELSE "start"]

(***************************************************************************)
(* BloodNLPExtractor.extract, pass by pass.                                *)
(***************************************************************************)

(* "if not text: return BloodAnalysisExtraction()"; else the fresh result  *)
(* and the metadata.                                                       *)
Begin(c) ==
    /\ pc[c] = "start"
    /\ IF text[c] = <<>>
       THEN /\ result' = [result EXCEPT ![Slot(c)] = EmptyExtraction]
            /\ pc' = [pc EXCEPT ![c] = "extracted"]
       ELSE /\ result' = [result EXCEPT ![Slot(c)] =
                  [EmptyExtraction EXCEPT
                      !.lab_name = ExtractLabName(patterns, text[c]),
                      !.analysis_date = ExtractDate(text[c])]]
            /\ pc' = [pc EXCEPT ![c] = "combined"]
    /\ idx' = [idx EXCEPT ![c] = 1]
    /\ UNCHANGED <<patterns, text, table_data, response, probe>>
    /\ UNCHANGED sideVars

(* One turn of "for match in self.alt_ast_pattern.finditer(text)".         *)
CombinedMatch(c) ==
    /\ pc[c] = "combined"
    /\ idx[c] <= Len(AltAstMatches(text[c]))
    /\ result' = [result EXCEPT ![Slot(c)].markers =
                    CombinedStore(@, text[c], AltAstMatches(text[c])[idx[c]])]
    /\ idx' = [idx EXCEPT ![c] = @ + 1]
    /\ UNCHANGED <<patterns, text, table_data, pc, response, probe>>
    /\ UNCHANGED sideVars

CombinedDone(c) ==
    /\ pc[c] = "combined"
    /\ idx[c] > Len(AltAstMatches(text[c]))
    /\ pc' = [pc EXCEPT ![c] = "lines"]
    /\ idx' = [idx EXCEPT ![c] = 1]
    /\ UNCHANGED <<patterns, text, table_data, result, response, probe>>
    /\ UNCHANGED sideVars

(* One turn of "for line in lines".                                        *)
LineStep(c) ==
    /\ pc[c] = "lines"
    /\ idx[c] <= Len(SplitLines(text[c]))
    /\ result' = [result EXCEPT ![Slot(c)].markers =
                    LineStore(patterns, @, SplitLines(text[c])[idx[c]])]
    /\ idx' = [idx EXCEPT ![c] = @ + 1]
    /\ UNCHANGED <<patterns, text, table_data, pc, response, probe>>
    /\ UNCHANGED sideVars

LinesDone(c) ==
    /\ pc[c] = "lines"
    /\ idx[c] > Len(SplitLines(text[c]))
    /\ pc' = [pc EXCEPT ![c] = "fallback"]
    /\ idx' = [idx EXCEPT ![c] = 1]
    /\ UNCHANGED <<patterns, text, table_data, result, response, probe>>
    /\ UNCHANGED sideVars

(* The fallback loop over the whole text, then "return result".            *)
Fallback(c) ==
    /\ pc[c] = "fallback"
    /\ result' = [result EXCEPT ![Slot(c)].markers =
                    FallbackStore(patterns, @, text[c])]
    /\ pc' = [pc EXCEPT ![c] = "extracted"]
    /\ UNCHANGED <<patterns, text, table_data, idx, response, probe>>
    /\ UNCHANGED sideVars

(* extract_blood_analysis builds its dictionary from the extraction.       *)
Respond(c) ==
    /\ pc[c] = "extracted"
    /\ response' = [response EXCEPT ![c] = AnalysisDict(result[Slot(c)])]
    /\ pc' = [pc EXCEPT ![c] = "responded"]
    /\ idx' = [idx EXCEPT ![c] = 1]
    /\ UNCHANGED <<patterns, text, table_data, result, probe>>
    /\ UNCHANGED sideVars

(* One turn of "for item in table_data" in extract_blood_nlp.              *)
MergeItem(c) ==
    /\ pc[c] = "responded"
    /\ idx[c] <= Len(table_data[c])
    /\ response' = [response EXCEPT ![c].markers =
                      MergeRow(@, table_data[c][idx[c]])]
    /\ idx' = [idx EXCEPT ![c] = @ + 1]
    /\ UNCHANGED <<patterns, text, table_data, pc, result, probe>>
    /\ UNCHANGED sideVars

(* The handler returns; its locals are gone.                               *)
Return(c) ==
    /\ pc[c] = "responded"
    /\ idx[c] > Len(table_data[c])
    /\ pc' = [pc EXCEPT ![c] = "done"]
    /\ result' = [result EXCEPT ![Slot(c)] = EmptyExtraction]
    /\ UNCHANGED <<patterns, text, table_data, idx, response, probe>>
    /\ UNCHANGED sideVars

Extraction(c) ==
    \/ Begin(c)
    \/ CombinedMatch(c)
    \/ CombinedDone(c)
    \/ LineStep(c)
    \/ LinesDone(c)
    \/ Fallback(c)
    \/ Respond(c)
    \/ Return(c)

Next == \E c \in Calls : Call(c) \/ Extraction(c)

Spec == Init /\ [][Next]_vars

NextRange == \E c \in Calls : CallRange(c) \/ Extraction(c)

SpecRange == Init /\ [][NextRange]_vars

NextConc == \E c \in ConcCalls : CallConc(c) \/ Extraction(c)

SpecConc == InitConc /\ [][NextConc]_vars

NextNlp == \E c \in Calls : CallNlp(c) \/ Extraction(c) \/ MergeItem(c)

SpecNlp == Init /\ [][NextNlp]_vars

(* The alias lines hold no combined notation: the combined loop has no     *)
(* turn.                                                                   *)
NextAlias ==
    \E c \in Calls :
        \/ CallAlias(c)
        \/ Begin(c)
        \/ CombinedDone(c)
        \/ LineStep(c)
        \/ LinesDone(c)
        \/ Fallback(c)
        \/ Respond(c)
        \/ Return(c)

SpecAlias == Init /\ [][NextAlias]_vars

(***************************************************************************)
(* The two status computations, side by side on the same inputs.           *)
(***************************************************************************)

StatusProbe ==
    \E value \in ProbeValues, ref_min \in ProbeBounds, ref_max \in ProbeBounds,
       marker_key \in {"ferritin", "alt"} :
        /\ probe = NoProbe
        /\ probe' =
              [value |-> value, reference_min |-> ref_min,
               reference_max |-> ref_max, marker |-> marker_key,
               extractor |->
                   AddReferenceAndStatus(
                       [MarkerResult(value, NoneStr, ConfHigh, <<>>) EXCEPT
                           !.reference_min = ref_min,
                           !.reference_max = ref_max],
                       marker_key),
               api |-> calculate_status(value, ref_min, ref_max)]
        /\ UNCHANGED <<patterns, text, table_data, pc, idx, result, response>>
        /\ UNCHANGED sideVars

SpecStatus == Init /\ [][StatusProbe]_vars

(***************************************************************************)
(* parse_lab_row(row), cell by cell.                                       *)
(***************************************************************************)

TableCells ==
    {CHgb, CAlt, CK, CCa199, CValueUnit, CValue, CDigit, CRange, CRangeWide,
     CLess, CMore, CBlank}

(* Rows with a range cell and a single-bound cell after the value.         *)
ReferenceRows ==
    {<<CHgb, CValue, CRangeWide, CLess>>, <<CHgb, CValue, CLess, CRangeWide>>,
     <<CHgb, CValue, CRange, CMore>>}

TableRows == SeqsUpTo(TableCells, MaxCells) \cup ReferenceRows

(* Entry: "if len(row) < 2: return None", else the locals.                 *)
ParseCall ==
    \E row \in TableRows :
        /\ parse = NoParse
        /\ parse' = IF Len(row) < 2
                    THEN [ParseLocals(row) EXCEPT !.at = "returned"]
                    ELSE ParseLocals(row)
        /\ UNCHANGED <<patterns, text, table_data, pc, idx, result, response>>
        /\ UNCHANGED <<probe, db, now, reply, sessions, ws>>

(* One turn of the loop over the cells.                                    *)
ParseCell ==
    /\ parse # NoParse
    /\ parse.at = "loop"
    /\ parse.i <= Len(parse.row)
    /\ parse' = [CellStep(parse, parse.row[parse.i]) EXCEPT !.i = @ + 1]
    /\ UNCHANGED <<patterns, text, table_data, pc, idx, result, response>>
    /\ UNCHANGED <<probe, db, now, reply, sessions, ws>>

(* After the loop: the observation or None.                                *)
ParseReturn ==
    /\ parse # NoParse
    /\ parse.at = "loop"
    /\ parse.i > Len(parse.row)
    /\ parse' = [parse EXCEPT !.at = "returned", !.returned = RowResult(parse)]
    /\ UNCHANGED <<patterns, text, table_data, pc, idx, result, response>>
    /\ UNCHANGED <<probe, db, now, reply, sessions, ws>>

NextRow == ParseCall \/ ParseCell \/ ParseReturn

SpecRow == Init /\ [][NextRow]_vars

(* The tables handed to extract_lab_data_from_tables: up to two tables of  *)
(* up to MaxRows rows each.                                                *)
SampleRows ==
    {<<CHgb>>, <<CHgb, CValue>>, <<CAlt, CValueUnit, CRange>>, <<CValue, CLess>>}

SampleTables == SeqsUpTo(SampleRows, MaxRows)

TableLists ==
    {<<>>} \cup {<<t>> : t \in SampleTables}
           \cup {<<t, u>> : t \in SampleTables, u \in SampleTables}

(* extract_lab_data_from_tables(tables), as one step.                      *)
ExtractTables ==
    \E tables \in TableLists :
        /\ parse = NoParse
        /\ parse' = [at |-> "tables", tables |-> tables,
                     results |-> extract_lab_data_from_tables(tables)]
        /\ UNCHANGED <<patterns, text, table_data, pc, idx, result, response>>
        /\ UNCHANGED <<probe, db, now, reply, sessions, ws>>

NextTables == ParseCall \/ ParseCell \/ ParseReturn \/ ExtractTables

SpecTables == Init /\ [][NextTables]_vars

(* match_marker_name(name) for a name that is an alias registered for a    *)
(* marker.                                                                 *)
MatchName ==
    \E m \in Markers :
        \E a \in MARKER_ALIASES[m] :
            /\ probe = NoProbe
            /\ probe' = [name |-> AliasName(a), registered |-> m,
                         marker_key |-> match_marker_name(AliasName(a))]
            /\ UNCHANGED <<patterns, text, table_data, pc, idx, result>>
            /\ UNCHANGED <<response, parse, db, now, reply, sessions, ws>>

NextMatch == MatchName

SpecMatch == Init /\ [][NextMatch]_vars

(***************************************************************************)
(* POST /upload-pdf (upload_blood_pdf).                                    *)
(***************************************************************************)

(* The texts read from uploaded files.                                     *)
UploadAlphabet ==
    {THgb, TAlt, TAltAst, TPair, Num(L140), Num(L5c8), Num(L5), TGl, NL}

UploadTexts == SeqsUpTo(UploadAlphabet, MaxLen)

ContentTypes == {"application/pdf", "image/png"}

(* The handler up to the parse: 400 for a file that is not a PDF, 422 for  *)
(* a PDF without text.                                                     *)
CallUpload(c) ==
    \E content_type \in ContentTypes, t \in UploadTexts :
        /\ pc[c] = "idle"
        /\ text' = [text EXCEPT ![c] = t]
        /\ IF content_type # "application/pdf"
           THEN /\ response' = [response EXCEPT ![c] = [status_code |-> 400]]
                /\ pc' = [pc EXCEPT ![c] = "rejected"]
           ELSE IF IsBlank(t)
           THEN /\ response' = [response EXCEPT ![c] = [status_code |-> 422]]
                /\ pc' = [pc EXCEPT ![c] = "rejected"]
           ELSE /\ response' = [response EXCEPT ![c] = NoResponse]
                /\ pc' = [pc EXCEPT ![c] = "upload"]
        /\ UNCHANGED <<patterns, table_data, idx, result, probe>>
        /\ UNCHANGED sideVars

(* normalize_text, parse_invivo_blood and the response.                    *)
UploadRespond(c) ==
    /\ pc[c] = "upload"
    /\ response' = [response EXCEPT ![c] = UploadResponse(text[c])]
    /\ pc' = [pc EXCEPT ![c] = "done"]
    /\ UNCHANGED <<patterns, text, table_data, idx, result, probe>>
    /\ UNCHANGED sideVars

NextUpload == \E c \in Calls : CallUpload(c) \/ UploadRespond(c)

SpecUpload == Init /\ [][NextUpload]_vars

(***************************************************************************)
(* The encounters API: one action per request, the handler run to its      *)
(* response (requests are served one after another).                       *)
(***************************************************************************)

Users == {"owner-user", "other-user"}

(* The ids of requests: the ids the table can hold and one it never holds. *)
RequestIds == EncounterIds \cup {"enc-0"}

InitialStates ==
    {NoDict, [EmptyDict(StateKeys) EXCEPT !.flow_step = Str("intro")]}

(* The state updates of pause requests: none, {}, a step, a null step, a   *)
(* list of messages, messages that are not a list, a context.              *)
StateUpdates ==
    {NoDict, EmptyDict(StateKeys),
     [EmptyDict(StateKeys) EXCEPT !.flow_step = Str("intake")],
     [EmptyDict(StateKeys) EXCEPT !.flow_step = Null],
     [EmptyDict(StateKeys) EXCEPT !.messages = List(<<>>)],
     [EmptyDict(StateKeys) EXCEPT !.messages = Str("x")]}

(* The payloads of message requests.                                       *)
Contents == {<<"Hello", "user">>, <<"Here is some advice", "assistant">>}

FlowSteps == {NoneStr, "question-1"}

Contexts ==
    {NoDict,
     [EmptyDict(ContextKeys) EXCEPT !.symptom = Str("fatigue")],
     [EmptyDict(ContextKeys) EXCEPT !.symptom = Str("cough"),
                                    !.next_step = Str("follow-up")]}

(* An HTTPException raised by the service: nothing is committed.           *)
Reject(op, encounter_id, user_id, status_code) ==
    /\ reply' = [op |-> op, encounter_id |-> encounter_id,
                 user_id |-> user_id, status_code |-> status_code]
    /\ UNCHANGED <<db, now>>

(* The commit of a handler and its response.                               *)
Commit(op, encounter_id, user_id, status_code, encounter) ==
    /\ now < MaxClock
    /\ db' = [db EXCEPT ![encounter_id] = encounter]
    /\ now' = now + 1
    /\ reply' = [op |-> op, encounter_id |-> encounter_id,
                 user_id |-> user_id, status_code |-> status_code,
                 body |-> ToResponse(encounter)]

(* A handler that answers with the row as it is.                           *)
Answer(op, encounter_id, user_id) ==
    /\ reply' = [op |-> op, encounter_id |-> encounter_id,
                 user_id |-> user_id, status_code |-> 200,
                 body |-> ToResponse(db[encounter_id])]
    /\ UNCHANGED <<db, now>>

BloodVars == <<patterns, text, table_data, pc, idx, result, response, probe>>

(* POST /encounters *)
StartEncounter ==
    \E user_id \in {"owner-user"}, initial_state \in InitialStates,
       id \in EncounterIds :
        /\ db[id] = NoEncounter
        /\ Commit("create", id, user_id, 201,
                  NewEncounter(id, user_id, initial_state, now + 1))
        /\ UNCHANGED <<BloodVars, parse, sessions, ws>>

(* GET /encounters/{id} *)
GetEncounterById ==
    \E id \in RequestIds, user_id \in Users :
        /\ LET owned == get_owned_encounter(db, id, user_id)
           IN IF owned # 200 THEN Reject("get", id, user_id, owned)
              ELSE Answer("get", id, user_id)
        /\ UNCHANGED <<BloodVars, parse, sessions, ws>>

(* POST /encounters/{id}/pause *)
Pause ==
    \E id \in RequestIds, user_id \in Users, state_update \in StateUpdates :
        /\ LET owned == get_owned_encounter(db, id, user_id)
           IN IF owned # 200 THEN Reject("pause", id, user_id, owned)
              ELSE IF ~ensure_can_pause(db[id])
              THEN Reject("pause", id, user_id, 409)
              ELSE Commit("pause", id, user_id, 200,
                          Paused(db[id], state_update, now + 1))
        /\ UNCHANGED <<BloodVars, parse, sessions, ws>>

(* POST /encounters/{id}/resume *)
Resume ==
    \E id \in RequestIds, user_id \in Users :
        /\ LET owned == get_owned_encounter(db, id, user_id)
           IN IF owned # 200 THEN Reject("resume", id, user_id, owned)
              ELSE IF ~ensure_can_resume(db[id])
              THEN Reject("resume", id, user_id, 409)
              ELSE Commit("resume", id, user_id, 200,
                          Resumed(db[id], now + 1))
        /\ UNCHANGED <<BloodVars, parse, sessions, ws>>

(* POST /encounters/{id}/complete *)
Complete ==
    \E id \in RequestIds, user_id \in Users :
        /\ LET owned == get_owned_encounter(db, id, user_id)
           IN IF owned # 200 THEN Reject("complete", id, user_id, owned)
              ELSE IF Completed(db[id], now + 1) = db[id]
              THEN Answer("complete", id, user_id)
              ELSE Commit("complete", id, user_id, 200,
                          Completed(db[id], now + 1))
        /\ UNCHANGED <<BloodVars, parse, sessions, ws>>

(* POST /encounters/{id}/messages *)
AddMessage ==
    \E id \in RequestIds, user_id \in Users, msg \in Contents,
       flow_step \in FlowSteps, context \in Contexts :
        /\ LET owned == get_owned_encounter(db, id, user_id)
           IN IF owned # 200 THEN Reject("append", id, user_id, owned)
              ELSE IF ~ensure_can_append(db[id])
              THEN Reject("append", id, user_id, 409)
              ELSE /\ Len(ListOf(db[id].state_json.messages)) < MaxMessages
                   /\ Commit("append", id, user_id, 200,
                             Appended(db[id], msg[1], msg[2], flow_step,
                                      context, now + 1))
        /\ UNCHANGED <<BloodVars, parse, sessions, ws>>

NextEnc ==
    \/ StartEncounter
    \/ GetEncounterById
    \/ Pause
    \/ Resume
    \/ Complete
    \/ AddMessage

SpecEnc == Init /\ [][NextEnc]_vars

(***************************************************************************)
(* parse_invivo_blood pass by pass: the combined pass match by match, the  *)
(* line pass line by line, the fallback pass key by key, each step with    *)
(* its calls of _set_result.                                               *)
(***************************************************************************)

(* Texts of the upload alphabet with a marker on two lines.                *)
LegacyRepeated ==
    {<<THgb, Num(L140), NL, THgb, Num(L5)>>,
     <<TAlt, Num(L5), NL, TAltAst, TPair>>,
     <<THgb, NL, THgb, Num(L140)>>}

LegacyTexts == UploadTexts \cup LegacyRepeated

LegacyAt(at, s, n, r) == [at |-> at, s |-> s, n |-> n, result |-> r]

(* Entry: normalized_text = text or "", result = _empty_result().          *)
LegacyCall ==
    \E t \in LegacyTexts :
        /\ parse = NoParse
        /\ parse' = LegacyAt("legacy_combined", NormalizeText(t), 1,
                             EmptyResult)
        /\ UNCHANGED <<BloodVars, db, now, reply, sessions, ws>>

(* One turn of "for match in alt_ast_pattern.finditer(normalized_text)".   *)
LegacyCombinedStep ==
    /\ parse # NoParse
    /\ parse.at = "legacy_combined"
    /\ LET ms == AltAstMatches(parse.s)
       IN parse' =
            IF parse.n > Len(ms)
            THEN LegacyAt("legacy_lines", parse.s, 1, parse.result)
            ELSE LegacyAt("legacy_combined", parse.s, parse.n + 1,
                          LegacyCombined(parse.result, parse.s,
                                         <<ms[parse.n]>>, 1))
    /\ UNCHANGED <<BloodVars, db, now, reply, sessions, ws>>

(* One turn of "for line in lines".                                        *)
LegacyLineStep ==
    /\ parse # NoParse
    /\ parse.at = "legacy_lines"
    /\ LET lines == SplitLines(parse.s)
       IN parse' =
            IF parse.n > Len(lines)
            THEN LegacyAt("legacy_fallback", parse.s, 1, parse.result)
            ELSE LegacyAt("legacy_lines", parse.s, parse.n + 1,
                          LegacyLine(parse.result, lines[parse.n]))
    /\ UNCHANGED <<BloodVars, db, now, reply, sessions, ws>>

(* One turn of the fallback loop "for key, aliases in alias_lower.items()" *)
(* and, after the last key, "return result".                               *)
LegacyFallbackStep ==
    /\ parse # NoParse
    /\ parse.at = "legacy_fallback"
    /\ parse' =
         IF parse.n > Len(LegacyKeys)
         THEN LegacyAt("legacy_returned", parse.s, 1, parse.result)
         ELSE LegacyAt("legacy_fallback", parse.s, parse.n + 1,
                       [parse.result EXCEPT ![LegacyKeys[parse.n]] =
                           LegacyFallback(parse.result, parse.s,
                                          LegacyKeys[parse.n])])
    /\ UNCHANGED <<BloodVars, db, now, reply, sessions, ws>>

NextLegacy ==
    \/ LegacyCall
    \/ LegacyCombinedStep
    \/ LegacyLineStep
    \/ LegacyFallbackStep

SpecLegacy == Init /\ [][NextLegacy]_vars

(***************************************************************************)
(* Requests of the owner on one encounter served at the same time.  Each   *)
(* handler reads the row into its own session ("await session.get"),       *)
(* checks its guard and assigns the new values to its copy, and at "await  *)
(* session.commit()" the session writes the columns whose values it        *)
(* changed.  Nothing locks the row between the two and the row has no      *)
(* version column.                                                         *)
(***************************************************************************)

RaceUpdates ==
    {NoDict, [EmptyDict(StateKeys) EXCEPT !.flow_step = Str("intake")]}

(* The handler up to its commit: 404/403/409 end the request, else the     *)
(* session holds the row as read and as changed.                           *)
Loaded(w, op, id, changed) ==
    sessions' = [sessions EXCEPT ![w] =
                    [at |-> "loaded", op |-> op, encounter_id |-> id,
                     encounter |-> db[id], changed |-> changed]]

Refused(w, op, id, status_code) ==
    sessions' = [sessions EXCEPT ![w] =
                    [at |-> "done", op |-> op, encounter_id |-> id,
                     status_code |-> status_code]]

(* append_message up to "await session.commit()".                          *)
AppendLoad(w) ==
    \E id \in EncounterIds, msg \in Contents :
        /\ sessions[w].at = "idle"
        /\ LET owned == get_owned_encounter(db, id, "owner-user")
           IN IF owned # 200 THEN Refused(w, "append", id, owned)
              ELSE IF ~ensure_can_append(db[id])
              THEN Refused(w, "append", id, 409)
              ELSE Loaded(w, "append", id,
                          Appended(db[id], msg[1], msg[2], NoneStr, NoDict,
                                   now + 1))
        /\ UNCHANGED <<BloodVars, parse, db, now, reply, ws>>

(* pause_encounter up to "await session.commit()".                         *)
PauseLoad(w) ==
    \E id \in EncounterIds, state_update \in RaceUpdates :
        /\ sessions[w].at = "idle"
        /\ LET owned == get_owned_encounter(db, id, "owner-user")
           IN IF owned # 200 THEN Refused(w, "pause", id, owned)
              ELSE IF ~ensure_can_pause(db[id])
              THEN Refused(w, "pause", id, 409)
              ELSE Loaded(w, "pause", id,
                          Paused(db[id], state_update, now + 1))
        /\ UNCHANGED <<BloodVars, parse, db, now, reply, ws>>

(* The row after a session's UPDATE: the columns the session changed take  *)
(* its values, the others stay as they are in the table.                   *)
Flushed(row, read, changed) ==
    [col \in DOMAIN row |->
        IF changed[col] # read[col] THEN changed[col] ELSE row[col]]

(* "await session.commit()" and the response.                              *)
SessionCommit(w) ==
    /\ sessions[w].at = "loaded"
    /\ now < MaxClock
    /\ db' = [db EXCEPT ![sessions[w].encounter_id] =
                 Flushed(@, sessions[w].encounter, sessions[w].changed)]
    /\ now' = now + 1
    /\ sessions' = [sessions EXCEPT ![w] =
                       [at |-> "done", op |-> sessions[w].op,
                        encounter_id |-> sessions[w].encounter_id,
                        status_code |-> 200,
                        changed |-> sessions[w].changed]]
    /\ UNCHANGED <<BloodVars, parse, reply, ws>>

NextRace ==
    \/ StartEncounter
    \/ \E w \in Workers : AppendLoad(w) \/ PauseLoad(w) \/ SessionCommit(w)

SpecRace == Init /\ [][NextRace]_vars

(***************************************************************************)
(* websocket_audio_analyze.                                                *)
(***************************************************************************)

AudioSizes == {0, MinAudioBytes - 1, MinAudioBytes, 5 * MinAudioBytes}

SocketRest == <<BloodVars, parse, db, now, reply, sessions>>

(* await websocket.accept() *)
Accept ==
    /\ ws.at = "connecting"
    /\ ws' = [ws EXCEPT !.at = "receive", !.connected = TRUE]
    /\ UNCHANGED SocketRest

(* The client goes away while the handler runs.                            *)
ClientDisconnect ==
    /\ ws.at \in {"receive", "transcribe", "analyse", "send", "except"}
    /\ ws.connected
    /\ ws' = [ws EXCEPT !.connected = FALSE]
    /\ UNCHANGED SocketRest

(* await websocket.receive_bytes() and the size check: WebSocketDisconnect *)
(* when the client is gone, KeyError for a text frame.                     *)
Receive ==
    /\ ws.at = "receive"
    /\ \/ /\ ~ws.connected
          /\ ws' = [ws EXCEPT !.at = "finally", !.steps = <<"receive">>]
       \/ /\ ws.connected
          /\ ws' = [ws EXCEPT !.at = "except", !.steps = <<"receive">>]
       \/ /\ ws.connected
          /\ \E size \in AudioSizes :
                ws' = IF size < MinAudioBytes
                      THEN [ws EXCEPT
                              !.at = "send", !.audio_data = size,
                              !.steps = <<"receive">>,
                              !.pending = ErrorMessage("Audio data too small")]
                      ELSE [ws EXCEPT !.at = "transcribe",
                                      !.audio_data = size,
                                      !.steps = <<"receive">>]
    /\ UNCHANGED SocketRest

(* await transcribe_audio(...) and the checks of its result.               *)
Transcribe ==
    /\ ws.at = "transcribe"
    /\ \E transcription \in Transcriptions :
          LET ran == [ws EXCEPT !.steps = Append(@, "transcribe")]
          IN ws' =
               IF transcription = Raised THEN [ran EXCEPT !.at = "except"]
               ELSE IF /\ transcription.error # NoneStr
                       /\ transcription.text = ""
               THEN [ran EXCEPT
                       !.at = "send",
                       !.pending = ErrorMessage(transcription.error)]
               ELSE IF Length[transcription.text] < MinTranscriptChars
               THEN [ran EXCEPT
                       !.at = "send",
                       !.transcript_text = transcription.text,
                       !.pending = ErrorMessage("ru:Ne udalos' raspoznat' rech'")]
               ELSE [ran EXCEPT !.at = "analyse",
                                !.transcript_text = transcription.text]
    /\ UNCHANGED SocketRest

(* await generate_soap_analysis(...), the check of its result and the      *)
(* dialogueProtocol; AttributeError for an answer that is not a dict.      *)
Analyse ==
    /\ ws.at = "analyse"
    /\ \E analysis \in Analyses(ws.transcript_text) :
          LET ran == [ws EXCEPT !.steps = Append(@, "analyse"),
                                !.analysis = analysis]
          IN ws' =
               IF IsList(analysis) THEN [ran EXCEPT !.at = "except"]
               ELSE IF BareError(analysis)
               THEN [ran EXCEPT !.at = "send",
                                !.pending = ErrorMessage(analysis.error)]
               ELSE [ran EXCEPT
                       !.at = "send",
                       !.pending =
                           [status |-> "completed",
                            result |-> WithProtocol(analysis,
                                                    ws.transcript_text),
                            language |-> "ru"]]
    /\ UNCHANGED SocketRest

(* await websocket.send_json(...) inside the try: to a client that is gone *)
(* it raises WebSocketDisconnect or another exception.                     *)
Send ==
    /\ ws.at = "send"
    /\ \/ /\ ws.connected
          /\ ws' = [ws EXCEPT !.at = "finally",
                              !.sent = Append(@, ws.pending)]
       \/ /\ ~ws.connected
          /\ \E at \in {"finally", "except"} : ws' = [ws EXCEPT !.at = at]
    /\ UNCHANGED SocketRest

(* except Exception: try to send "Server error", pass when that fails.     *)
Except ==
    /\ ws.at = "except"
    /\ ws' = [ws EXCEPT
                !.at = "finally",
                !.sent = IF ws.connected
                         THEN Append(@, ErrorMessage("Server error"))
                         ELSE @]
    /\ UNCHANGED SocketRest

(* finally: await websocket.close(), whatever it raises is passed.         *)
Close ==
    /\ ws.at = "finally"
    /\ ws' = [ws EXCEPT !.at = "done", !.closed = TRUE]
    /\ UNCHANGED SocketRest

NextSocket ==
    \/ Accept
    \/ ClientDisconnect
    \/ Receive
    \/ Transcribe
    \/ Analyse
    \/ Send
    \/ Except
    \/ Close

SpecSocket == Init /\ [][NextSocket]_vars

(***************************************************************************)
(* Properties.                                                             *)
(***************************************************************************)

(* C1: within one extract call a marker's confidence never decreases; the  *)
(* fallback pass leaves every slot that already holds an observation as it *)
(* is (so a 1.0 observation of the combined or line pass is never          *)
(* overwritten) and whatever it writes into an empty slot has confidence   *)
(* 0.7.                                                                    *)
C1_FallbackNeverOverwrites ==
    [][\A c \in Calls :
         pc[c] \in {"combined", "lines", "fallback"} =>
            \A m \in Markers :
               LET old == result[Slot(c)].markers[m]
                   new == result'[Slot(c)].markers[m]
               IN /\ old # NoMarker =>
                        /\ new # NoMarker
                        /\ new.confidence >= old.confidence
                  /\ (pc[c] = "fallback" /\ old # NoMarker) => new = old
                  /\ (pc[c] = "fallback" /\ old = NoMarker /\ new # NoMarker)
                        => new.confidence = ConfFallback]_vars

(* The fallback pass is over, a marker stands at confidence 1.0, and the   *)
(* whole-text search for that marker matches with another observation.     *)
C1_Witness ==
    \E c \in Calls, m \in Markers :
        /\ pc[c] = "extracted"
        /\ result[Slot(c)].markers[m] # NoMarker
        /\ result[Slot(c)].markers[m].confidence = ConfHigh
        /\ FallbackObservation(patterns.alias_patterns[m], m, text[c])
              \notin {NoMarker, result[Slot(c)].markers[m]}

(* C2: when the text holds the combined notation "ALT/AST a/b", then from  *)
(* the end of the combined pass on (line pass, fallback pass, result,      *)
(* response) alt and ast stand at confidence 1.0 with the numbers a and b  *)
(* of a combined occurrence; the generic match for AST on the same line    *)
(* never replaces them.                                                    *)
C2_CombinedPairKept ==
    \A c \in Calls :
        AltAstMatches(text[c]) # <<>> =>
            LET ms == AltAstMatches(text[c])
                IsPair(alt, ast) ==
                    /\ alt.confidence = ConfHigh
                    /\ ast.confidence = ConfHigh
                    /\ \E n \in 1..Len(ms) :
                          /\ alt.value = ParseFloat(text[c][ms[n][2]].a)
                          /\ ast.value = ParseFloat(text[c][ms[n][2]].b)
            IN /\ pc[c] \in {"lines", "fallback", "extracted", "responded"} =>
                    /\ result[Slot(c)].markers["alt"] # NoMarker
                    /\ result[Slot(c)].markers["ast"] # NoMarker
                    /\ IsPair(result[Slot(c)].markers["alt"],
                              result[Slot(c)].markers["ast"])
               /\ pc[c] \in {"responded", "done"} =>
                    /\ {"alt", "ast"} \subseteq DOMAIN response[c].markers
                    /\ IsPair(response[c].markers["alt"],
                              response[c].markers["ast"])

(* A call has answered for a text with the combined notation on a line     *)
(* where the generic AST pattern matches too.                              *)
C2_Witness ==
    \E c \in Calls :
        /\ pc[c] = "done"
        /\ AltAstMatches(text[c]) # <<>>
        /\ \E n \in 1..Len(SplitLines(text[c])) :
              LineObservation(patterns.alias_patterns["ast"], "ast",
                              SplitLines(text[c])[n]) # NoMarker

C4_AboveMaxIsHighWarning ==
    \A c \in Calls :
        pc[c] \in {"responded", "done"} =>
            \A m \in Markers \cap DOMAIN response[c].markers :
                LET o == response[c].markers[m]
                IN (o.reference_max # None /\ o.value > o.reference_max) =>
                      /\ o.status = "high"
                      /\ response[c].summary.warning_count >= 1

(* C5: every stored observation has a value and one of the six statuses;   *)
(* its bounds are both present or both absent; the status is "unknown"     *)
(* exactly when the bounds are absent, which never happens for a marker of *)
(* the default table and always happens for a marker outside it when the   *)
(* text holds no range.                                                    *)
C5_ObservationWellFormed ==
    \A c \in Calls, m \in Markers :
        LET o == result[Slot(c)].markers[m]
        IN o # NoMarker =>
              /\ o.value # None
              /\ o.status \in {"normal", "low", "high", "critical_low",
                               "critical_high", "unknown"}
              /\ o.reference_min = None <=> o.reference_max = None
              /\ o.status = "unknown" <=> o.reference_min = None
              /\ o.reference_min = None => m \notin DOMAIN REFERENCE_RANGES
              /\ (/\ m \notin DOMAIN REFERENCE_RANGES
                  /\ \A i \in 1..Len(text[c]) :
                        text[c][i].k \notin RangeKinds \cup {"bound"})
                    => o.reference_min = None

(* An observation of a marker outside the default table carries bounds     *)
(* read from the text after a one-sided bound.                             *)
C5_Witness ==
    \E c \in Calls, m \in Markers \ DOMAIN REFERENCE_RANGES :
        /\ pc[c] = "extracted"
        /\ result[Slot(c)].markers[m] # NoMarker
        /\ result[Slot(c)].markers[m].reference_min # None
        /\ result[Slot(c)].markers[m].status # "unknown"
        /\ \E i \in 1..Len(text[c]) : text[c][i] = TMore

(* C6: the compiled patterns are never changed, and every answer is the    *)
(* one an uninterrupted extraction of the same text gives, whatever the    *)
(* other calls do meanwhile; so calls on the same text, repeated or        *)
(* concurrent, answer alike.                                               *)
C6_ExtractIsPure ==
    /\ patterns = CompilePatterns
    /\ \A c \in ConcCalls :
          pc[c] \in {"responded", "done"} =>
             response[c] = ExtractBloodAnalysis(CompilePatterns, text[c])
    /\ \A c \in ConcCalls, d \in ConcCalls :
          (/\ pc[c] \in {"responded", "done"}
           /\ pc[d] \in {"responded", "done"}
           /\ text[c] = text[d]) => response[c] = response[d]

(* One call has answered with markers found while another call, on another *)
(* text, is in the middle of its passes.                                   *)
C6_Witness ==
    \E c \in ConcCalls, d \in ConcCalls :
        /\ pc[c] = "done"
        /\ response[c].summary.found_markers > 0
        /\ pc[d] \in {"lines", "fallback"}
        /\ text[d] # text[c]
        /\ \E m \in Markers : result[Slot(d)].markers[m] # NoMarker

(* C7: a call on the empty text ends with every marker slot absent, and    *)
(* its answer has no marker entry, found_markers = 0, no alert and         *)
(* extraction_rate 0.                                                      *)
C7_EmptyText ==
    \A c \in Calls :
        text[c] = <<>> =>
            /\ pc[c] = "extracted" =>
                  \A m \in Markers : result[Slot(c)].markers[m] = NoMarker
            /\ pc[c] \in {"responded", "done"} =>
                  /\ DOMAIN response[c].markers = {}
                  /\ response[c].summary.found_markers = 0
                  /\ response[c].summary.alerts = <<>>
                  /\ response[c].summary.critical_count = 0
                  /\ response[c].summary.warning_count = 0
                  /\ response[c].summary.extraction_rate = 0

(* A call on the empty text has answered.                                  *)
C7_Witness ==
    \E c \in Calls :
        /\ pc[c] = "done"
        /\ text[c] = <<>>
        /\ response[c] # NoResponse

(* C8: the summary has exactly one alert for every found marker whose      *)
(* status is low, high, critical_low or critical_high, and none for any    *)
(* other; an alert is critical for critical_* and a warning for low/high;  *)
(* the two counts are the numbers of alerts of each severity, and          *)
(* critical_count + warning_count = number of alerts <= found_markers      *)
(* <= total_markers.                                                       *)
C8_SummaryAlerts ==
    \A c \in Calls :
        pc[c] = "responded" =>
            LET r == result[Slot(c)].markers
                s == response[c].summary
                n == Len(s.alerts)
                Of(m) == {i \in 1..n : s.alerts[i].marker = m}
                With(sev) == {i \in 1..n : s.alerts[i].severity = sev}
            IN /\ \A m \in Markers :
                     Cardinality(Of(m)) =
                        IF /\ r[m] # NoMarker
                           /\ r[m].status \in {"low", "high", "critical_low",
                                               "critical_high"}
                        THEN 1 ELSE 0
               /\ \A i \in 1..n :
                     /\ s.alerts[i].marker \in Markers
                     /\ s.alerts[i].status = r[s.alerts[i].marker].status
                     /\ s.alerts[i].severity =
                           IF s.alerts[i].status \in {"critical_low",
                                                      "critical_high"}
                           THEN "critical" ELSE "warning"
               /\ s.critical_count = Cardinality(With("critical"))
               /\ s.warning_count = Cardinality(With("warning"))
               /\ s.critical_count + s.warning_count = n
               /\ n <= s.found_markers
               /\ s.found_markers <= s.total_markers

(* An answer whose summary holds one critical alert and one warning.       *)
C8_Witness ==
    \E c \in Calls :
        /\ pc[c] = "responded"
        /\ response[c].summary.critical_count = 1
        /\ response[c].summary.warning_count = 1
        /\ Len(response[c].summary.alerts) = 2

(* C9: the "markers" mapping of the answer has an entry for exactly the    *)
(* markers found and none for a metadata field; found_markers is the       *)
(* number of its entries and total_markers the number of marker slots.     *)
C9_MarkersAreFoundMarkers ==
    \A c \in Calls :
        pc[c] = "responded" =>
            /\ DOMAIN response[c].markers =
                  {m \in Markers : result[Slot(c)].markers[m] # NoMarker}
            /\ response[c].summary.found_markers =
                  Cardinality(DOMAIN response[c].markers)
            /\ response[c].summary.total_markers = Len(MarkerFields)

(* C10: merging the first table row replaces (or adds) the marker's entry  *)
(* exactly when the pipeline has no entry for the marker, or its entry has *)
(* no reference bounds while the row has them.                             *)
C10_MergeReplacesExactly ==
    \A c \in Calls :
        (pc[c] = "responded" /\ idx[c] = 2) =>
            LET old == ExtractBloodAnalysis(patterns, text[c]).markers
                item == table_data[c][1]
                key == match_marker_name(item.name)
                HasBounds(o) == o.reference_min # None /\ o.reference_max # None
            IN key # NoneStr =>
                  (response[c].markers # old <=>
                      \/ key \notin DOMAIN old
                      \/ ~HasBounds(old[key]) /\ HasBounds(item))

(* C11: every alias A of every marker K is reachable: when the text is the *)
(* single line "A: 10", marker K stands at value 10.0 with confidence 1.0  *)
(* from the end of the line pass on, in the extraction and in the response.*)
C11_EveryAliasReachable ==
    \A c \in Calls, K \in Markers :
        \A A \in MARKER_ALIASES[K] :
            text[c] = AliasLine(A) =>
                /\ pc[c] \in {"fallback", "extracted", "responded"} =>
                      /\ result[Slot(c)].markers[K] # NoMarker
                      /\ result[Slot(c)].markers[K].value = 100
                      /\ result[Slot(c)].markers[K].confidence = ConfHigh
                /\ pc[c] \in {"responded", "done"} =>
                      /\ K \in DOMAIN response[c].markers
                      /\ response[c].markers[K].value = 100
                      /\ response[c].markers[K].confidence = ConfHigh

(* The line of a Cyrillic alias of several words has been extracted: its   *)
(* marker is populated at 10.0, and so is the marker of the shorter alias  *)
(* that ends the same word.                                                *)
C11_Witness ==
    \E c \in Calls :
        /\ pc[c] = "extracted"
        /\ text[c] = AliasLine("ru:glikirovannyj gemoglobin")
        /\ result[Slot(c)].markers["hba1c"] # NoMarker
        /\ result[Slot(c)].markers["hba1c"].value = 100
        /\ result[Slot(c)].markers["hemoglobin"] # NoMarker

(* C12: a row <<label, measurement "v unit", range "min-max">> (a label is *)
(* a cell of none of the three numeric shapes, longer than one character)  *)
(* is returned as name = the label, value = v, unit = the unit, bounds =   *)
(* min and max; and in any row, a cell of range shape met after the value  *)
(* has been taken sets the two bounds to its numbers and changes neither   *)
(* the value, nor the unit, nor the name.                                  *)
C12_LabelValueRange ==
    /\ [](\A l, m, r \in TableCells :
            (/\ parse # NoParse
             /\ parse.at = "returned"
             /\ parse.row = <<l, m, r>>
             /\ l.named /\ ~l.num.found /\ ~l.rng.found /\ ~l.sgl.found
             /\ m.num.found /\ m.num.unit # ""
             /\ r.rng.found)
            => parse.returned =
                 [name |-> l.txt, value |-> ParseFloat(m.num.value),
                  unit |-> m.num.unit,
                  reference_min |-> ParseFloat(r.rng.min),
                  reference_max |-> ParseFloat(r.rng.max)])
    /\ [][(/\ parse # NoParse
           /\ parse.at = "loop"
           /\ parse.i <= Len(parse.row)
           /\ parse.value # None
           /\ parse.row[parse.i].rng.found)
          => /\ parse'.value = parse.value
             /\ parse'.unit = parse.unit
             /\ parse'.marker_name = parse.marker_name
             /\ parse'.ref_min = ParseFloat(parse.row[parse.i].rng.min)
             /\ parse'.ref_max = ParseFloat(parse.row[parse.i].rng.max)]_vars

(* The row <<"Gemoglobin", "140 g/l", "120-160">> has been returned with   *)
(* value 140.0 and bounds 120.0 and 160.0.                                 *)
C12_Witness ==
    /\ parse # NoParse
    /\ parse.at = "returned"
    /\ parse.row = <<CHgb, CValueUnit, CRange>>
    /\ parse.returned # NoRow
    /\ parse.returned.value = 1400
    /\ parse.returned.reference_min = 1200
    /\ parse.returned.reference_max = 1600

(* C13: the status guards of the encounter operations.  A pause answered   *)
(* 200 found the encounter active and leaves it paused with paused_at set  *)
(* to the time of the request; a resume answered 200 found it paused and   *)
(* leaves it active with resumed_at set; an append answered 200 found it   *)
(* active.  The owner's pause, resume or append in any other status is     *)
(* answered 409, and a request answered 409 leaves the table as it was.    *)
(* A pause succeeds only if the encounter was never paused or was resumed  *)
(* after its last pause, a resume only if its last pause is later than its *)
(* last resume: two successful pauses (resumes) never follow each other    *)
(* without the opposite operation between them.                            *)
C13_StatusGuards ==
    [][LET op == reply'.op
           id == reply'.encounter_id
           ok == reply'.status_code = 200
           owned == get_owned_encounter(db, id, reply'.user_id) = 200
       IN /\ (op = "pause" /\ ok) =>
                /\ db[id].status = "active"
                /\ db'[id].status = "paused"
                /\ db'[id].paused_at = now'
                /\ \/ db[id].paused_at = None
                   \/ db[id].resumed_at > db[id].paused_at
          /\ (op = "resume" /\ ok) =>
                /\ db[id].status = "paused"
                /\ db'[id].status = "active"
                /\ db'[id].resumed_at = now'
                /\ db[id].paused_at > db[id].resumed_at
          /\ (op = "append" /\ ok) => db[id].status = "active"
          /\ (owned /\ op = "pause" /\ db[id].status # "active")
                => reply'.status_code = 409
          /\ (owned /\ op = "resume" /\ db[id].status # "paused")
                => reply'.status_code = 409
          /\ (owned /\ op = "append" /\ db[id].status # "active")
                => reply'.status_code = 409
          /\ reply'.status_code = 409 => db' = db]_vars

(* A second pause of an encounter that was paused, resumed and paused      *)
(* again has just been answered 409.                                       *)
C13_Witness ==
    /\ reply # NoReply
    /\ reply.op = "pause"
    /\ reply.status_code = 409
    /\ db[reply.encounter_id].status = "paused"
    /\ db[reply.encounter_id].resumed_at # None
    /\ db[reply.encounter_id].paused_at > db[reply.encounter_id].resumed_at

(* C14: completion is terminal.  A complete request of the owner moves an  *)
(* active or paused encounter to completed; a completed row is never       *)
(* changed by any later request (status, state and every timestamp stay);  *)
(* on it the owner's pause, resume and append are answered 409 and         *)
(* complete is answered 200 with the row as it is; and complete_encounter  *)
(* returns a cancelled row unchanged.                                      *)
C14_CompletionIsTerminal ==
    /\ [](\A id \in EncounterIds :
            db[id] # NoEncounter =>
               LET cancelled == [db[id] EXCEPT !.status = "cancelled"]
               IN Completed(cancelled, now + 1) = cancelled)
    /\ [][LET op == reply'.op
              id == reply'.encounter_id
              owned == get_owned_encounter(db, id, reply'.user_id) = 200
          IN /\ \A e \in EncounterIds :
                   (db[e] # NoEncounter /\ db[e].status = "completed")
                      => db'[e] = db[e]
             /\ (owned /\ op = "complete"
                    /\ db[id].status \in {"active", "paused"})
                   => /\ reply'.status_code = 200
                      /\ db'[id].status = "completed"
             /\ (owned /\ db[id].status = "completed") =>
                   /\ op \in {"pause", "resume", "append"}
                         => reply'.status_code = 409
                   /\ op = "complete" =>
                         /\ reply'.status_code = 200
                         /\ reply'.body = ToResponse(db[id])]_vars

(* A message request on a completed encounter that holds a message has     *)
(* just been answered 409.                                                 *)
C14_Witness ==
    /\ reply # NoReply
    /\ reply.op = "append"
    /\ reply.status_code = 409
    /\ db[reply.encounter_id].status = "completed"
    /\ db[reply.encounter_id].state_json.messages # List(<<>>)

(* C15: ownership.  Every request (get, pause, resume, complete, append)   *)
(* for an encounter of another user is answered 403, whatever the          *)
(* encounter's status (never 409), and a request for an id the table does  *)
(* not hold is answered 404; both leave the table as it was.               *)
C15_OwnerOnly ==
    [][LET op == reply'.op
           id == reply'.encounter_id
           held == id \in EncounterIds /\ db[id] # NoEncounter
       IN op \in {"get", "pause", "resume", "complete", "append"} =>
            /\ (held /\ db[id].user_id # reply'.user_id) =>
                  /\ reply'.status_code = 403
                  /\ db' = db
            /\ ~held => /\ reply'.status_code = 404
                        /\ db' = db]_vars

(* A complete request of another user on a paused encounter has just been  *)
(* answered 403.                                                           *)
C15_Witness ==
    /\ reply # NoReply
    /\ reply.op = "complete"
    /\ reply.status_code = 403
    /\ db[reply.encounter_id].status = "paused"
    /\ db[reply.encounter_id].user_id # reply.user_id

(* C16: the state survives pause and resume.  A successful resume leaves   *)
(* state_json as it was; a successful pause is the merge of some state     *)
(* update under which every key whose value changed is supplied by the     *)
(* update with a value that is not null, and "messages" changes only when  *)
(* the update carries a list.                                              *)
C16_StateSurvivesPause ==
    [][LET op == reply'.op
           id == reply'.encounter_id
           ok == reply'.status_code = 200
       IN /\ (op = "resume" /\ ok) => db'[id].state_json = db[id].state_json
          /\ (op = "pause" /\ ok) =>
                \E state_update \in StateUpdates :
                    /\ db'[id] = Paused(db[id], state_update, now')
                    /\ \A key \in StateKeys :
                          db'[id].state_json[key] # db[id].state_json[key] =>
                             /\ state_update # NoDict
                             /\ state_update[key] \notin {Missing, Null}
                             /\ key = "messages" => IsList(state_update[key])
      ]_vars

(* C17: a successful append_message extends the list state.messages by     *)
(* exactly one entry, the message of the request stamped with the time of  *)
(* the request, placed at the end, all earlier entries unchanged and in    *)
(* order; flow_step becomes the supplied step or stays; the supplied       *)
(* context is laid over the existing context, the other keys stay.         *)
C17_AppendExtendsByOne ==
    [][LET op == reply'.op
           id == reply'.encounter_id
           old == db[id].state_json
           new == db'[id].state_json
       IN (op = "append" /\ reply'.status_code = 200) =>
            /\ IsList(old.messages)
            /\ IsList(new.messages)
            /\ Len(new.messages.list) = Len(old.messages.list) + 1
            /\ SubSeq(new.messages.list, 1, Len(old.messages.list))
                  = old.messages.list
            /\ \E msg \in Contents, flow_step \in FlowSteps,
                  context \in Contexts :
                  /\ new.messages.list[Len(new.messages.list)] =
                        [role |-> msg[2], content |-> msg[1],
                         timestamp |-> now']
                  /\ new.flow_step = IF flow_step # NoneStr
                                     THEN Str(flow_step) ELSE old.flow_step
                  /\ \A k \in ContextKeys :
                        new.context.dict[k] =
                            IF context # NoDict /\ context[k] # Missing
                            THEN context[k] ELSE old.context.dict[k]]_vars

(***************************************************************************)
(* C18: in the /upload-pdf response, extracted has an entry for every key  *)
(* of the legacy parser and missing lists exactly the keys whose value is  *)
(* absent: every key is either found (value present, confidence 0.7 or     *)
(* 1.0) or listed in missing, never both; a PDF without text is answered   *)
(* 422 and never reaches the parse.                                        *)
(***************************************************************************)
InMissing(r, key) == \E n \in 1..Len(r.missing) : r.missing[n] = key

C18_UploadPartition ==
    \A c \in Calls :
        /\ pc[c] = "done" =>
              /\ DOMAIN response[c].extracted = DOMAIN ALIASES
              /\ \A n \in 1..Len(response[c].missing) :
                    response[c].missing[n] \in DOMAIN ALIASES
              /\ \A key \in DOMAIN ALIASES :
                    LET entry == response[c].extracted[key]
                    IN /\ InMissing(response[c], key) <=> entry.value = None
                       /\ ~InMissing(response[c], key) =>
                             /\ entry.value # None
                             /\ entry.confidence \in {ConfFallback, ConfHigh}
        /\ pc[c] \in {"upload", "done"} => ~IsBlank(text[c])
        /\ (pc[c] = "rejected" /\ response[c].status_code # 400) =>
              /\ IsBlank(text[c])
              /\ response[c] = [status_code |-> 422]

(* An upload answered with one key found by the fallback search and the    *)
(* nine others missing.                                                    *)
C18_Witness ==
    \E c \in Calls :
        /\ pc[c] = "done"
        /\ response[c].extracted["hemoglobin"].confidence = ConfFallback
        /\ Len(response[c].missing) = 9
        /\ ~InMissing(response[c], "hemoglobin")

(***************************************************************************)
(* C19: ties at equal confidence do not overwrite.  When the text holds    *)
(* several combined occurrences, or several lines match a marker's         *)
(* pattern, the observation in the final result is the one written by the  *)
(* first match in text order.                                              *)
(***************************************************************************)
FirstCombined(t) ==
    CombinedStore(EmptyExtraction.markers, t, AltAstMatches(t)[1])

MatchingLines(pats, m, t) ==
    {n \in 1..Len(SplitLines(t)) :
        LineObservation(pats.alias_patterns[m], m, SplitLines(t)[n]) # NoMarker}

FirstLine(pats, m, t) ==
    LineObservation(pats.alias_patterns[m], m,
                    SplitLines(t)[Min(MatchingLines(pats, m, t))])

C19_LineTierFirstWins ==
    \A c \in Calls :
        pc[c] = "extracted" =>
            \A m \in Markers :
                (/\ MatchingLines(patterns, m, text[c]) # {}
                 /\ ~(m \in {"alt", "ast"} /\ AltAstMatches(text[c]) # <<>>))
                    => result[Slot(c)].markers[m] = FirstLine(patterns, m, text[c])

C19_FirstMatchWins ==
    /\ C19_LineTierFirstWins
    /\ \A c \in Calls :
          (pc[c] = "extracted" /\ AltAstMatches(text[c]) # <<>>) =>
              /\ result[Slot(c)].markers["alt"] = FirstCombined(text[c])["alt"]
              /\ result[Slot(c)].markers["ast"] = FirstCombined(text[c])["ast"]

(***************************************************************************)
(* C20: a reference range read from the text with min >= max is never      *)
(* stored as the bounds of an observation, whichever pattern read it: the  *)
(* bounds of every observation (from the text or from the default table)   *)
(* are a proper interval.                                                  *)
(***************************************************************************)
C20_ReversedRangeRejected ==
    \A c \in Calls, m \in Markers :
        LET o == result[Slot(c)].markers[m]
        IN (o # NoMarker /\ o.reference_min # None) =>
              o.reference_min < o.reference_max

(***************************************************************************)
(* C21: in the line-scoped pass the bounds of an observation come from the *)
(* first applicable source: a labeled range in the rest of the line, else  *)
(* a bare range (min < max) at the line end, else a single-bound           *)
(* inequality, else the default table; the status is the ladder over the   *)
(* bounds so chosen.  Stated for the one-line texts "alias value rest".    *)
(***************************************************************************)
NoBounds == <<None, None>>

LabeledBounds(rest) ==
    LET I == {i \in 1..Len(rest) : rest[i].k \in {"labeled", "plabeled"}}
    IN IF I = {} THEN NoBounds
       ELSE <<ParseFloat(rest[Min(I)].lo), ParseFloat(rest[Min(I)].hi)>>

BareBounds(rest) ==
    LET n == Len(rest)
        at == IF n >= 1 /\ rest[n].k \in {"range", "prange"} THEN n
              ELSE IF /\ n >= 2
                      /\ rest[n].k = "unit" /\ rest[n].short
                      /\ rest[n - 1].k \in {"range", "prange"}
              THEN n - 1 ELSE 0
    IN IF at # 0 /\ ParseFloat(rest[at].lo) < ParseFloat(rest[at].hi)
       THEN <<ParseFloat(rest[at].lo), ParseFloat(rest[at].hi)>>
       ELSE NoBounds

SingleBounds(rest) ==
    LET I == {i \in 1..Len(rest) : rest[i].k = "bound"}
    IN IF I = {} THEN NoBounds
       ELSE LET b == rest[Min(I)]
            IN IF b.op \in {"<", "<="} THEN <<0, ParseFloat(b.v)>>
               ELSE <<ParseFloat(b.v), 10 * ParseFloat(b.v)>>

DefaultBounds(m) ==
    IF m \in DOMAIN REFERENCE_RANGES
    THEN <<REFERENCE_RANGES[m][1], REFERENCE_RANGES[m][2]>> ELSE NoBounds

ChosenBounds(m, rest) ==
    IF LabeledBounds(rest) # NoBounds THEN LabeledBounds(rest)
    ELSE IF BareBounds(rest) # NoBounds THEN BareBounds(rest)
    ELSE IF SingleBounds(rest) # NoBounds THEN SingleBounds(rest)
    ELSE DefaultBounds(m)

(* A finished run over a one-line text "alias number rest". *)
ValueLine(c) ==
    /\ pc[c] = "extracted"
    /\ Len(text[c]) >= 2
    /\ text[c][1].k = "alias"
    /\ text[c][2].k = "num"
    /\ \A i \in 1..Len(text[c]) : text[c][i].k # "nl"

RestOf(c) == SubSeq(text[c], 3, Len(text[c]))

C21_BoundsPriority ==
    \A c \in Calls, m \in Markers :
        LET o == result[Slot(c)].markers[m]
            b == ChosenBounds(m, RestOf(c))
        IN (ValueLine(c) /\ o # NoMarker) =>
              /\ <<o.reference_min, o.reference_max>> = b
              /\ o.status = IF b = NoBounds THEN "unknown"
                             ELSE LadderStatus(o.value, b[1], b[2])

(***************************************************************************)
(* C22: for a line alias, value, optional unit token, bare range min - max *)
(* (min < max) at the line end, the line-scoped pass stores the range as   *)
(* the bounds, with or without the unit token, and never takes the range   *)
(* as the unit.                                                            *)
(***************************************************************************)
BareRangeLine(c) ==
    LET rest == RestOf(c)
        n == Len(rest)
    IN /\ ValueLine(c)
       /\ n \in {1, 2}
       /\ rest[n].k \in {"range", "prange"}
       /\ ParseFloat(rest[n].lo) < ParseFloat(rest[n].hi)
       /\ n = 2 => rest[1].k = "unit"

C22_BareRangeStored ==
    \A c \in Calls, m \in Markers :
        LET o == result[Slot(c)].markers[m]
            r == text[c][Len(text[c])]
        IN (BareRangeLine(c) /\ o # NoMarker) =>
              /\ o.reference_min = ParseFloat(r.lo)
              /\ o.reference_max = ParseFloat(r.hi)
              /\ o.unit # r.txt

(***************************************************************************)
(* C23: a single-bound reference becomes bounds the same way in the        *)
(* table-row parser as in the text extractor ("< X": (0, X); "> X":        *)
(* (X, 10 * X)), and it is used only when no range was found for the       *)
(* observation.  Stated on the observations parse_lab_row returns: with a  *)
(* range cell (min < max) in the row the bounds are those of a range cell; *)
(* with single-bound cells only, they are the conversion of one of them.   *)
(***************************************************************************)
(* The cells of a row after its value cell. *)
AfterValue(row) ==
    LET V == {j \in 1..Len(row) : row[j].filled /\ row[j].num.found}
    IN IF V = {} THEN {} ELSE {row[j] : j \in (Min(V) + 1)..Len(row)}

RangeCells(row) ==
    {cell \in AfterValue(row) :
        /\ cell.filled /\ cell.rng.found
        /\ ParseFloat(cell.rng.min) < ParseFloat(cell.rng.max)}

BoundCells(row) ==
    {cell \in AfterValue(row) :
        cell.filled /\ cell.sgl.found /\ ~cell.rng.found /\ ~cell.num.found}

BoundOf(cell) ==
    IF cell.sgl.less THEN <<0, ParseFloat(cell.sgl.val)>>
    ELSE <<ParseFloat(cell.sgl.val), 10 * ParseFloat(cell.sgl.val)>>

Returned ==
    parse # NoParse /\ parse.at = "returned" /\ parse.returned # NoRow

ReturnedBounds == <<parse.returned.reference_min, parse.returned.reference_max>>

C23_SingleBoundOnlyWithoutRange ==
    Returned =>
        IF RangeCells(parse.row) # {}
        THEN \E cell \in RangeCells(parse.row) :
                ReturnedBounds =
                    <<ParseFloat(cell.rng.min), ParseFloat(cell.rng.max)>>
        ELSE BoundCells(parse.row) # {} =>
                \E cell \in BoundCells(parse.row) : ReturnedBounds = BoundOf(cell)

(***************************************************************************)
(* C25: the name of a table-row observation is never a numeric cell: a     *)
(* cell of the pure-measurement shape (a number, optionally followed by a  *)
(* unit token) is never chosen as the marker name, and the name is longer  *)
(* than one character.                                                     *)
(***************************************************************************)
C25_NameIsNotNumeric ==
    Returned =>
        \E j \in 1..Len(parse.row) :
            /\ parse.row[j].txt = parse.returned.name
            /\ parse.row[j].named
            /\ ~parse.row[j].num.found

(***************************************************************************)
(* C24: parse_lab_row returns an observation if and only if the row holds  *)
(* a name cell and a value cell; value and unit are those of the first     *)
(* cell of the pure-measurement shape.  extract_lab_data_from_tables       *)
(* returns exactly the observations of the rows that yield one, in table   *)
(* and row order; rows of fewer than two cells and rows without an         *)
(* observation are dropped.  (A name cell is a cell of none of the three   *)
(* numeric shapes, longer than one character and not all digits.)          *)
(***************************************************************************)
ValueCells(row) == {j \in 1..Len(row) : row[j].filled /\ row[j].num.found}

NameCells(row) ==
    {j \in 1..Len(row) :
        /\ row[j].filled /\ row[j].named
        /\ ~row[j].num.found /\ ~row[j].rng.found /\ ~row[j].sgl.found}

RECURSIVE Flatten(_)
Flatten(tables) ==
    IF tables = <<>> THEN <<>> ELSE Head(tables) \o Flatten(Tail(tables))

Yielding(rows) ==
    SelectSeq(rows, LAMBDA row : Len(row) >= 2 /\ parse_lab_row(row) # NoRow)

C24_TablesPart ==
    (parse # NoParse /\ parse.at = "tables") =>
        LET rows == Yielding(Flatten(parse.tables))
        IN /\ Len(parse.results) = Len(rows)
           /\ \A n \in 1..Len(rows) : parse.results[n] = parse_lab_row(rows[n])

C24_ValuePart ==
    Returned =>
        LET first == parse.row[Min(ValueCells(parse.row))]
        IN /\ parse.returned.value = ParseFloat(first.num.value)
           /\ parse.returned.unit =
                 IF first.num.unit # "" THEN first.num.unit ELSE NoneStr

C24_RowsYieldObservations ==
    /\ C24_TablesPart
    /\ C24_ValuePart
    /\ (parse # NoParse /\ parse.at = "returned") =>
          (parse.returned # NoRow <=>
              /\ ValueCells(parse.row) # {}
              /\ NameCells(parse.row) # {})

(***************************************************************************)
(* C26: a table-row name that is exactly an alias registered for marker K  *)
(* is resolved to K by match_marker_name; no marker that comes earlier in  *)
(* the dictionary captures it through substring containment.               *)
(***************************************************************************)
C26_ExactAliasResolves ==
    (probe # NoProbe /\ "registered" \in DOMAIN probe) =>
        probe.marker_key = probe.registered

(***************************************************************************)
(* C27: in the /extract-nlp response the summary describes the markers of  *)
(* the same response: found_markers is the number of marker entries with a *)
(* value, and there is one alert, carrying the entry's status, for exactly *)
(* the entries whose status is low, high, critical_low or critical_high    *)
(* (entries added or replaced from table rows included).                   *)
(***************************************************************************)
C27_SummaryMatchesMarkers ==
    \A c \in Calls :
        pc[c] = "done" =>
            LET markers == response[c].markers
                s == response[c].summary
                Of(k) == {i \in 1..Len(s.alerts) : s.alerts[i].marker = k}
            IN /\ s.found_markers =
                     Cardinality({k \in DOMAIN markers : markers[k].value # None})
               /\ \A i \in 1..Len(s.alerts) :
                     /\ s.alerts[i].marker \in DOMAIN markers
                     /\ s.alerts[i].status = markers[s.alerts[i].marker].status
               /\ \A k \in DOMAIN markers :
                     Cardinality(Of(k)) =
                        IF markers[k].status \in {"low", "high", "critical_low",
                                                  "critical_high"}
                        THEN 1 ELSE 0

(***************************************************************************)
(* C28: when two append_message requests on the same active encounter run  *)
(* at the same time in separate sessions and both succeed, both messages   *)
(* are in state.messages afterwards, under every interleaving of their     *)
(* reads and commits; a successful append is not lost to a pause running   *)
(* at the same time; and no message is committed to an encounter whose     *)
(* committed status is not active.                                         *)
(***************************************************************************)
Succeeded(w, op) ==
    /\ sessions[w].at = "done"
    /\ sessions[w].op = op
    /\ sessions[w].status_code = 200

(* The message a successful append wrote into its copy of the row.         *)
MessageOf(w) ==
    LET messages == sessions[w].changed.state_json.messages.list
    IN messages[Len(messages)]

Stored(id, message) ==
    LET messages == ListOf(db[id].state_json.messages)
    IN \E n \in 1..Len(messages) : messages[n] = message

C28_NoAppendIsLost ==
    \A w \in Workers :
        (/\ Succeeded(w, "append")
         /\ \A v \in Workers \ {w} : sessions[v].at = "done")
            => Stored(sessions[w].encounter_id, MessageOf(w))

C28_AppendOnlyWhenActive ==
    [][\A w \in Workers :
          (/\ sessions[w].at = "loaded"
           /\ sessions[w].op = "append"
           /\ sessions'[w].at = "done")
             => db[sessions[w].encounter_id].status = "active"]_vars

C28_ConcurrentAppends == []C28_NoAppendIsLost /\ C28_AppendOnlyWhenActive

(***************************************************************************)
(* C29: in the legacy parse_invivo_blood an entry is replaced only by a    *)
(* candidate with a value and a strictly higher confidence than the entry  *)
(* holds: per marker the confidence never decreases during a call, an      *)
(* entry written at 1.0 by the combined pattern or by the first matching   *)
(* line is never replaced by a later line or by the fallback pass, and in  *)
(* the returned result a marker's value is null exactly when its           *)
(* confidence is 0.0.                                                      *)
(***************************************************************************)
InLegacy == "result" \in DOMAIN parse /\ "s" \in DOMAIN parse

C29_ReplacedOnlyByHigher ==
    [][InLegacy =>
         \A key \in DOMAIN ALIASES :
            LET old == parse.result[key]
                new == parse'.result[key]
            IN /\ new.confidence >= old.confidence
               /\ new # old => /\ new.value # None
                               /\ new.confidence > old.confidence
               /\ old.confidence = ConfHigh => new = old]_vars

C29_NullIffZero ==
    (InLegacy /\ parse.at = "legacy_returned") =>
        /\ parse.result = parse_invivo_blood(parse.s)
        /\ \A key \in DOMAIN ALIASES :
              /\ parse.result[key].value = None
                    <=> parse.result[key].confidence = 0
              /\ parse.result[key].confidence \in {0, ConfFallback, ConfHigh}

C29_MonotoneConfidence == []C29_NullIffZero /\ C29_ReplacedOnlyByHigher

(* A call has returned ast from the combined pattern at 1.0, and the line  *)
(* pass offered another value for ast at the same confidence.              *)
C29_Witness ==
    /\ InLegacy
    /\ parse.at = "legacy_returned"
    /\ AltAstMatches(parse.s) # <<>>
    /\ parse.result["ast"].confidence = ConfHigh
    /\ \E n \in 1..Len(SplitLines(parse.s)) :
          LET offered == LegacyLine(EmptyResult, SplitLines(parse.s)[n])
          IN /\ offered["ast"].value # None
             /\ offered["ast"].value # parse.result["ast"].value

(***************************************************************************)
(* C30: for every accepted audio-analysis connection the steps run in the  *)
(* order receive, transcribe, analyse, send; a "completed" message is sent *)
(* only after the audio had at least 1000 bytes, the transcription gave a  *)
(* text of at least 20 characters and the analysis returned some content;  *)
(* on any earlier failure exactly one "error" message is sent and the      *)
(* later steps are not run; a "completed" message carries a non-empty      *)
(* dialogueProtocol; and the socket is closed on every path.               *)
(***************************************************************************)
SentCompleted ==
    \E n \in 1..Len(ws.sent) : ws.sent[n].status = "completed"

(* The part that holds: the order of the steps, at most one message, the   *)
(* audio and transcript conditions and the dialogueProtocol of a           *)
(* "completed" message, and the close at the end of every path.            *)
C30_OrderAndClose ==
    /\ \E n \in 0..3 :
          ws.steps = SubSeq(<<"receive", "transcribe", "analyse">>, 1, n)
    /\ Len(ws.sent) <= 1
    /\ ws.at \in {"send", "except", "finally", "done"} => ws.steps # <<>>
    /\ ws.at = "done" => ws.closed
    /\ \A n \in 1..Len(ws.sent) :
          ws.sent[n].status = "completed" =>
              /\ Len(ws.steps) = 3
              /\ ws.audio_data >= MinAudioBytes
              /\ Length[ws.transcript_text] >= MinTranscriptChars
              /\ ws.sent[n].result.dialogueProtocol # ""

C30_NoStepAfterFailure ==
    [][ws.at \in {"send", "except", "finally", "done"}
          => ws'.steps = ws.steps]_vars

C30_CompletedOnlyWithContent ==
    SentCompleted => HasContent(ws.analysis)

C30_OneErrorOnFailure ==
    (ws.at = "done" /\ ~SentCompleted) =>
        /\ Len(ws.sent) = 1
        /\ ws.sent[1].status = "error"

C30_AnalyzeFlow ==
    /\ [](C30_OrderAndClose /\ C30_CompletedOnlyWithContent
            /\ C30_OneErrorOnFailure)
    /\ C30_NoStepAfterFailure

====
